---- MODULE Spec2Model ----
(***************************************************************************)
(* Model of the multi-timeframe price-impact engine of eth-vibes:          *)
(*   - fetchMultiTimeframePricesClient (src/app/page.tsx) and the GET      *)
(*     multi-timeframe route handler: the impact calculators;              *)
(*   - calculateMacroImpact: the macro-tracker aggregate;                  *)
(*   - saveTweetImpact (lib/supabase): the tweet cache upsert;             *)
(*   - useNewsFeed: the tweets state, fetchPrices and updateTweetPrice;    *)
(*   - useMacroEvents: the event tracking state machine and the backfill.  *)
(*                                                                         *)
(* Numbers.  JavaScript numbers are modelled exactly: prices are naturals, *)
(* `null` prices are Null, and percentage changes and scores are rationals *)
(* [n, d] in lowest terms with d > 0 (d = 0 encodes `null`).  Rounding of  *)
(* IEEE doubles is not modelled.                                           *)
(***************************************************************************)
EXTENDS Integers, Sequences, FiniteSets, TLC

VARIABLES
    now,        \* wall clock, Date.now()
    calc,       \* calculator harness: the call being made and its result
    store,      \* the table in use, `tweets` or `macro_events`:
                \* (id, asset) key -> row or NoRecord
    saves,      \* the saveTweetImpact calls made so far (log of arguments)
    news,       \* useNewsFeed: hook state (tweets, refs, in-flight passes)
    macro       \* useMacroEvents: hook state (events, in-flight ticks/backfill)

vars == <<now, calc, store, saves, news, macro>>

----------------------------------------------------------------------------
(* Bounds of the model *)

MaxJitter == 1      \* clock values examined around every window boundary
MaxDelta == 2       \* upstream prices range over BasePrice +/- MaxDelta

----------------------------------------------------------------------------
(* Values *)

Null == -1                          \* JavaScript null for a price
NullChange == [n |-> 0, d |-> 0]    \* JavaScript null for a change
Zero == [n |-> 0, d |-> 1]

Abs(x) == IF x < 0 THEN -x ELSE x
Max(a, b) == IF a > b THEN a ELSE b

RECURSIVE GCD(_, _)
GCD(a, b) == IF b = 0 THEN a ELSE GCD(b, a % b)

\* the rational n/d (d > 0) in lowest terms
Norm(n, d) ==
    LET g == GCD(Abs(n), d)
    IN  IF n < 0 THEN [n |-> -(Abs(n) \div g), d |-> d \div g]
                 ELSE [n |-> n \div g, d |-> d \div g]

RAdd(a, b) == Norm(a.n * b.d + b.n * a.d, a.d * b.d)
RMul(a, b) == Norm(a.n * b.n, a.d * b.d)
RAbs(a) == [n |-> Abs(a.n), d |-> a.d]
RScale(a, k) == Norm(a.n * k, a.d)       \* a * k, k an integer
RDivInt(a, k) == Norm(a.n, a.d * k)      \* a / k, k a positive integer
RLeq(a, b) == a.n * b.d <= b.n * a.d
RLess(a, b) == a.n * b.d < b.n * a.d

----------------------------------------------------------------------------
(* Timeframes *)

TimeframeKeys == <<"1m", "10m", "30m", "1h">>
TfKeySet == {"1m", "10m", "30m", "1h"}

TIMEFRAME_CONFIGS ==
    [k \in TfKeySet |->
        CASE k = "1m"  -> 60 * 1000
          [] k = "10m" -> 10 * 60 * 1000
          [] k = "30m" -> 30 * 60 * 1000
          [] k = "1h"  -> 60 * 60 * 1000]

\* TIMEFRAME_WEIGHTS with every timeframe counting once (an unweighted vote)
TIMEFRAME_WEIGHTS_Unweighted == [k \in TfKeySet |-> 1]

TIMEFRAME_WEIGHTS ==
    [k \in TfKeySet |->
        CASE k = "1m"  -> 4
          [] k = "10m" -> 3
          [] k = "30m" -> 2
          [] k = "1h"  -> 1]

PendingTf == [price |-> Null, change |-> NullChange, pending |-> TRUE]
EMPTY_TIMEFRAMES == [k \in TfKeySet |-> PendingTf]

----------------------------------------------------------------------------
(* Timeframe Impact Calculator, client variant (page.tsx)                  *)
(* `resp` is what the upstream answers: request key -> price or Null,      *)
(* "base" being the request at the event timestamp.                        *)

\* ChangeOf without the division-by-zero guard (n/0 is an infinity)
ChangeOf_NoZeroGuard(price, priceAtT) ==
    IF price # Null
    THEN Norm((price - priceAtT) * 100, priceAtT)
    ELSE NullChange

\* change = ((price - priceAtT) / priceAtT) * 100, guarded as in the code
ChangeOf(price, priceAtT) ==
    IF price # Null /\ priceAtT # 0
    THEN Norm((price - priceAtT) * 100, priceAtT)
    ELSE NullChange

\* ClientTimeframe with the boundary off by one (>= for >)
ClientTimeframe_OffByOne(timestamp, t, priceAtT, key, resp) ==
    IF timestamp + TIMEFRAME_CONFIGS[key] >= t
    THEN [price |-> Null, change |-> NullChange, pending |-> TRUE]
    ELSE [price |-> resp[key],
          change |-> ChangeOf(resp[key], priceAtT),
          pending |-> FALSE]

\* ClientTimeframe that keeps an elapsed offset pending when its price is missing
ClientTimeframe_NullStaysPending(timestamp, t, priceAtT, key, resp) ==
    IF timestamp + TIMEFRAME_CONFIGS[key] > t \/ resp[key] = Null
    THEN [price |-> Null, change |-> NullChange, pending |-> TRUE]
    ELSE [price |-> resp[key],
          change |-> ChangeOf(resp[key], priceAtT),
          pending |-> FALSE]

\* one iteration of the loop over TIMEFRAME_CONFIGS
ClientTimeframe(timestamp, t, priceAtT, key, resp) ==
    IF timestamp + TIMEFRAME_CONFIGS[key] > t
    THEN [price |-> Null, change |-> NullChange, pending |-> TRUE]
    ELSE [price |-> resp[key],
          change |-> ChangeOf(resp[key], priceAtT),
          pending |-> FALSE]

NoTotals == [total |-> 0, mag |-> Zero, pos |-> 0, neg |-> 0]

\* one iteration of the weighted aggregation loop
WeightedStep(acc, key, tf) ==
    IF tf.change # NullChange
    THEN LET weight == TIMEFRAME_WEIGHTS[key]
         IN  [total |-> acc.total + weight,
              mag |-> RAdd(acc.mag, RScale(RAbs(tf.change), weight)),
              pos |-> IF tf.change.n > 0 THEN acc.pos + weight ELSE acc.pos,
              neg |-> IF tf.change.n < 0 THEN acc.neg + weight ELSE acc.neg]
    ELSE acc

\* the loop over Object.entries(timeframes), in insertion order
WeightedTotals(timeframes) ==
    LET a1 == WeightedStep(NoTotals, "1m", timeframes["1m"])
        a2 == WeightedStep(a1, "10m", timeframes["10m"])
        a3 == WeightedStep(a2, "30m", timeframes["30m"])
    IN  WeightedStep(a3, "1h", timeframes["1h"])

\* ImpactDirection that calls a tie positive (>= for >)
ImpactDirection_TiePositive(weightedPositive, weightedNegative) ==
    IF weightedPositive >= weightedNegative THEN "positive"
    ELSE "negative"

ImpactDirection(weightedPositive, weightedNegative) ==
    IF weightedPositive > weightedNegative THEN "positive"
    ELSE IF weightedNegative > weightedPositive THEN "negative"
    ELSE "neutral"

\* ConsistencyFactor taking the minority side (min for max)
ConsistencyFactor_Min(acc) ==
    IF acc.total > 0
    THEN Norm(IF acc.pos < acc.neg THEN acc.pos ELSE acc.neg, acc.total)
    ELSE Zero

ConsistencyFactor(acc) ==
    IF acc.total > 0 THEN Norm(Max(acc.pos, acc.neg), acc.total) ELSE Zero

AvgWeightedMagnitude(acc) ==
    IF acc.total > 0 THEN RDivInt(acc.mag, acc.total) ELSE Zero

ImpactScore(acc) == RMul(AvgWeightedMagnitude(acc), ConsistencyFactor(acc))

\* BaselineUnavailable with every timeframe left pending
BaselineUnavailable_Pending ==
    [priceAtT |-> Null,
     timeframes |-> [k \in TfKeySet |->
                        [price |-> Null, change |-> NullChange, pending |-> TRUE]],
     impactScore |-> Zero,
     impactDirection |-> "neutral"]

\* the result returned when the base price is null
BaselineUnavailable ==
    [priceAtT |-> Null,
     timeframes |-> [k \in TfKeySet |->
                        [price |-> Null, change |-> NullChange, pending |-> FALSE]],
     impactScore |-> Zero,
     impactDirection |-> "neutral"]

fetchMultiTimeframePricesClient(timestamp, t, resp) ==
    LET priceAtT == resp["base"]
        timeframes == [k \in TfKeySet |->
                          ClientTimeframe(timestamp, t, priceAtT, k, resp)]
        acc == WeightedTotals(timeframes)
    IN  IF priceAtT = Null
        THEN BaselineUnavailable
        ELSE [priceAtT |-> priceAtT,
              timeframes |-> timeframes,
              impactScore |-> ImpactScore(acc),
              impactDirection |-> ImpactDirection(acc.pos, acc.neg)]

\* the fetchBinancePrice calls one invocation makes, in order, with the answers
RECURSIVE RequestsFrom(_, _, _, _, _)
RequestsFrom(keys, ms, timestamp, t, resp) ==
    IF keys = <<>> THEN <<>>
    ELSE LET k == Head(keys)
             rest == RequestsFrom(Tail(keys), ms, timestamp, t, resp)
         IN  IF timestamp + ms[k] > t THEN rest
             ELSE <<[key |-> k, at |-> timestamp + ms[k], price |-> resp[k]]>> \o rest

ClientRequests(timestamp, t, resp) ==
    <<[key |-> "base", at |-> timestamp, price |-> resp["base"]]>>
    \o (IF resp["base"] = Null THEN <<>>
        ELSE RequestsFrom(TimeframeKeys, TIMEFRAME_CONFIGS, timestamp, t, resp))

----------------------------------------------------------------------------
(* Timeframe Impact Calculator, route variant (GET ?multi=true)            *)

RouteKeys == <<"1m", "10m", "30m", "1h", "1d">>
RouteKeySet == {"1m", "10m", "30m", "1h", "1d"}

TIMEFRAMES ==
    [k \in RouteKeySet |->
        IF k = "1d" THEN 24 * 60 * 60 * 1000 ELSE TIMEFRAME_CONFIGS[k]]

RouteTimeframe(timeT, t, priceAtT, key, resp) ==
    IF timeT + TIMEFRAMES[key] > t
    THEN [price |-> Null, change |-> NullChange, pending |-> TRUE]
    ELSE [price |-> resp[key],
          change |-> ChangeOf(resp[key], priceAtT),
          pending |-> FALSE]

NoCounts == [valid |-> 0, mag |-> Zero, pos |-> 0, neg |-> 0]

CountStep(acc, tf) ==
    IF tf.change # NullChange
    THEN [valid |-> acc.valid + 1,
          mag |-> RAdd(acc.mag, RAbs(tf.change)),
          pos |-> IF tf.change.n > 0 THEN acc.pos + 1 ELSE acc.pos,
          neg |-> IF tf.change.n < 0 THEN acc.neg + 1 ELSE acc.neg]
    ELSE acc

CountTotals(timeframes) ==
    LET a1 == CountStep(NoCounts, timeframes["1m"])
        a2 == CountStep(a1, timeframes["10m"])
        a3 == CountStep(a2, timeframes["30m"])
        a4 == CountStep(a3, timeframes["1h"])
    IN  CountStep(a4, timeframes["1d"])

RouteScore(acc) ==
    IF acc.valid > 0
    THEN RMul(RDivInt(acc.mag, acc.valid), Norm(Max(acc.pos, acc.neg), acc.valid))
    ELSE Zero

RouteBaselineUnavailable ==
    [priceAtT |-> Null,
     timeframes |-> [k \in RouteKeySet |->
                        [price |-> Null, change |-> NullChange, pending |-> FALSE]],
     impactScore |-> Zero,
     impactDirection |-> "neutral"]

GETMultiTimeframe(timeT, t, resp) ==
    LET priceAtT == resp["base"]
        timeframes == [k \in RouteKeySet |->
                          RouteTimeframe(timeT, t, priceAtT, k, resp)]
        acc == CountTotals(timeframes)
    IN  IF priceAtT = Null
        THEN RouteBaselineUnavailable
        ELSE [priceAtT |-> priceAtT,
              timeframes |-> timeframes,
              impactScore |-> RouteScore(acc),
              impactDirection |-> ImpactDirection(acc.pos, acc.neg)]

RouteRequests(timeT, t, resp) ==
    <<[key |-> "base", at |-> timeT, price |-> resp["base"]]>>
    \o (IF resp["base"] = Null THEN <<>>
        ELSE RequestsFrom(RouteKeys, TIMEFRAMES, timeT, t, resp))

----------------------------------------------------------------------------
(* calculateMacroImpact (page.tsx): aggregate over an event's priceWindows *)

\* the step with the direction votes weighted (used to test C26)
MacroStep_Weighted(acc, key, w) ==
    IF w.change # NullChange /\ w.locked
    THEN LET weight == TIMEFRAME_WEIGHTS[key]
         IN  [weightedSum |-> RAdd(acc.weightedSum, RScale(RAbs(w.change), weight)),
              totalWeight |-> acc.totalWeight + weight,
              positiveCount |-> IF w.change.n > 0 THEN acc.positiveCount + weight
                                ELSE acc.positiveCount,
              negativeCount |-> IF w.change.n < 0 THEN acc.negativeCount + weight
                                ELSE acc.negativeCount,
              maxMove |-> IF RLess(acc.maxMove, RAbs(w.change))
                          THEN RAbs(w.change) ELSE acc.maxMove]
    ELSE acc

MacroStep(acc, key, w) ==
    IF w.change # NullChange /\ w.locked
    THEN LET weight == TIMEFRAME_WEIGHTS[key]
         IN  [weightedSum |-> RAdd(acc.weightedSum, RScale(RAbs(w.change), weight)),
              totalWeight |-> acc.totalWeight + weight,
              positiveCount |-> IF w.change.n > 0 THEN acc.positiveCount + 1
                                ELSE acc.positiveCount,
              negativeCount |-> IF w.change.n < 0 THEN acc.negativeCount + 1
                                ELSE acc.negativeCount,
              maxMove |-> IF RLess(acc.maxMove, RAbs(w.change))
                          THEN RAbs(w.change) ELSE acc.maxMove]
    ELSE acc

MacroTotals(windows) ==
    LET a0 == [weightedSum |-> Zero, totalWeight |-> 0, positiveCount |-> 0,
               negativeCount |-> 0, maxMove |-> Zero]
        a1 == MacroStep(a0, "1m", windows["1m"])
        a2 == MacroStep(a1, "10m", windows["10m"])
        a3 == MacroStep(a2, "30m", windows["30m"])
    IN  MacroStep(a3, "1h", windows["1h"])

\* score = Math.min(avgMagnitude / 4, 1)
MacroScore(avgMagnitude) ==
    LET q == RDivInt(avgMagnitude, 4)
    IN  IF RLess(q, [n |-> 1, d |-> 1]) THEN q ELSE [n |-> 1, d |-> 1]

calculateMacroImpact(windows) ==
    LET acc == MacroTotals(windows)
    IN  IF acc.totalWeight = 0
        THEN [score |-> Zero, direction |-> "neutral", maxMove |-> Zero]
        ELSE [score |-> MacroScore(RDivInt(acc.weightedSum, acc.totalWeight)),
              direction |-> ImpactDirection(acc.positiveCount, acc.negativeCount),
              maxMove |-> acc.maxMove]

----------------------------------------------------------------------------
(* Inputs: the event time, clock values and upstream answers examined      *)

BasePrice == 100
EventTime == 1000 * 1000            \* timestamp of the event under study

Jitter == (0 - MaxJitter) .. MaxJitter
Boundaries == {0} \cup {TIMEFRAMES[k] : k \in RouteKeySet}
ClockPoints == {EventTime + b + e : b \in Boundaries, e \in Jitter}

OffsetPrices == {Null} \cup ((BasePrice - MaxDelta) .. (BasePrice + MaxDelta))
BaselinePrices == {Null, 0, BasePrice, BasePrice - MaxDelta}

\* the upstream answers every request of one call: the requests whose target
\* time lies in the future are never made and get no answer
Elapsed(keys, ms, timestamp, t) == {k \in keys : timestamp + ms[k] <= t}
Responses(keys, ms, timestamp, t) ==
    {[k \in keys \cup {"base"} |->
         IF k = "base" THEN b ELSE IF k \in DOMAIN r THEN r[k] ELSE Null] :
       b \in BaselinePrices,
       r \in [Elapsed(keys, ms, timestamp, t) -> OffsetPrices]}

\* live or stored windows given to calculateMacroImpact
MacroWindowInputs ==
    {[price |-> Null, change |-> NullChange, locked |-> l] : l \in BOOLEAN}
    \cup {[price |-> p, change |-> Norm((p - BasePrice) * 100, BasePrice), locked |-> l] :
            p \in OffsetPrices \ {Null}, l \in BOOLEAN}

----------------------------------------------------------------------------
(* Specification SpecCalc: the calculators applied to every input          *)

NoCall == [fn |-> "none", timestamp |-> 0, t |-> 0, requests |-> <<>>,
           result |-> <<>>]

Idle == <<>>       \* value of a component that a specification leaves out

InitCalc ==
    /\ now \in ClockPoints
    /\ calc = NoCall
    /\ store = Idle /\ saves = Idle /\ news = Idle /\ macro = Idle

CallClient ==
    /\ calc.fn = "none"
    /\ \E resp \in Responses(TfKeySet, TIMEFRAME_CONFIGS, EventTime, now) :
          calc' = [fn |-> "client", timestamp |-> EventTime, t |-> now,
                   requests |-> ClientRequests(EventTime, now, resp),
                   result |-> fetchMultiTimeframePricesClient(EventTime, now, resp)]
    /\ UNCHANGED <<now, store, saves, news, macro>>

CallRoute ==
    /\ calc.fn = "none"
    /\ \E resp \in Responses(RouteKeySet, TIMEFRAMES, EventTime, now) :
          calc' = [fn |-> "route", timestamp |-> EventTime, t |-> now,
                   requests |-> RouteRequests(EventTime, now, resp),
                   result |-> GETMultiTimeframe(EventTime, now, resp)]
    /\ UNCHANGED <<now, store, saves, news, macro>>

CallMacroImpact ==
    /\ calc.fn = "none"
    /\ \E windows \in [TfKeySet -> MacroWindowInputs] :
          calc' = [fn |-> "macro", timestamp |-> EventTime, t |-> now,
                   requests |-> <<>>,
                   result |-> [windows |-> windows,
                               impact |-> calculateMacroImpact(windows)]]
    /\ UNCHANGED <<now, store, saves, news, macro>>

NextCalc == CallClient \/ CallRoute \/ CallMacroImpact

SpecCalc == InitCalc /\ [][NextCalc]_vars

----------------------------------------------------------------------------
(* Claims about the calculators (specification SpecCalc)                   *)

IsCalcResult == calc.fn \in {"client", "route"}
CalcKeys == IF calc.fn = "route" THEN RouteKeySet ELSE TfKeySet
CalcMs(k) == TIMEFRAMES[k]
Resolved(k) == ~calc.result.timeframes[k].pending
\* the answer the upstream gave to the request for offset k, if it was made
Asked(k) == \E i \in 1..Len(calc.requests) : calc.requests[i].key = k
Answer(k) == (CHOOSE r \in {calc.requests[i] : i \in 1..Len(calc.requests)} :
                 r.key = k).price

\* C3 as stated: every result has pending = false exactly for the offsets
\* whose target time timestamp + d is at or before now.
C3_PendingBoundary_Original ==
    IsCalcResult =>
        \A k \in CalcKeys : Resolved(k) <=> (calc.timestamp + CalcMs(k) <= calc.t)

\* C3 amended: when the baseline price is available, a timeframe is resolved
\* iff timestamp + d <= now (so pending at timestamp + d - 1, resolved at
\* timestamp + d); when the baseline is unavailable every timeframe is
\* returned with pending = false whatever now is.
C3_PendingBoundary ==
    IsCalcResult =>
        \A k \in CalcKeys :
            Resolved(k) <=> (\/ calc.result.priceAtT = Null
                             \/ calc.timestamp + CalcMs(k) <= calc.t)

C3_Witness ==
    /\ calc.fn = "client"
    /\ calc.result.priceAtT # Null
    /\ calc.t = calc.timestamp + TIMEFRAME_CONFIGS["10m"]
    /\ Resolved("10m") /\ ~Resolved("30m")

\* C4 as stated: with the baseline unavailable the result has a null baseline,
\* every timeframe {null, null, pending}, score 0, direction neutral, and no
\* further price request is made.
C4_BaselineUnavailable_Original ==
    (IsCalcResult /\ Answer("base") = Null) =>
        /\ calc.result.priceAtT = Null
        /\ \A k \in CalcKeys :
              calc.result.timeframes[k] =
                  [price |-> Null, change |-> NullChange, pending |-> TRUE]
        /\ calc.result.impactScore = Zero
        /\ calc.result.impactDirection = "neutral"
        /\ Len(calc.requests) = 1

\* C4 amended: with the baseline unavailable the result has a null baseline,
\* every timeframe {price null, change null, pending false}, score 0,
\* direction neutral, and no further price request is made.
C4_BaselineUnavailable ==
    (IsCalcResult /\ Answer("base") = Null) =>
        /\ calc.result.priceAtT = Null
        /\ \A k \in CalcKeys :
              calc.result.timeframes[k] =
                  [price |-> Null, change |-> NullChange, pending |-> FALSE]
        /\ calc.result.impactScore = Zero
        /\ calc.result.impactDirection = "neutral"
        /\ Len(calc.requests) = 1

C4_Witness ==
    /\ calc.fn = "client"
    /\ Answer("base") = Null
    /\ calc.t >= calc.timestamp + TIMEFRAME_CONFIGS["1h"]
    /\ calc.result.priceAtT = Null

\* C5: in the client calculator with an available non-zero baseline b, an
\* elapsed offset whose price is unavailable comes back resolved with price
\* and change null, every elapsed offset with price p has change
\* (p - b) / b * 100, and the baseline stays b.
C5_OffsetUnavailable ==
    (calc.fn = "client" /\ Answer("base") \notin {Null, 0}) =>
        /\ calc.result.priceAtT = Answer("base")
        /\ \A k \in TfKeySet :
              calc.timestamp + TIMEFRAME_CONFIGS[k] <= calc.t =>
                  /\ Asked(k)
                  /\ Resolved(k)
                  /\ calc.result.timeframes[k].price = Answer(k)
                  /\ calc.result.timeframes[k].change =
                        IF Answer(k) = Null THEN NullChange
                        ELSE Norm((Answer(k) - Answer("base")) * 100, Answer("base"))

C5_Witness ==
    /\ calc.fn = "client"
    /\ calc.result.priceAtT = BasePrice
    /\ Asked("30m") /\ Answer("1m") = BasePrice + 1
    /\ Answer("10m") = Null /\ Answer("30m") = BasePrice - 1
    /\ calc.result.timeframes["10m"] =
          [price |-> Null, change |-> NullChange, pending |-> FALSE]
    /\ calc.result.timeframes["1m"].change = [n |-> 1, d |-> 1]
    /\ calc.result.timeframes["30m"].change = [n |-> -1, d |-> 1]

\* C6: whenever the baseline price is 0, every timeframe's change is null,
\* the score is 0 and the direction is neutral.
C6_ZeroBaseline ==
    (IsCalcResult /\ calc.result.priceAtT = 0) =>
        /\ \A k \in CalcKeys : calc.result.timeframes[k].change = NullChange
        /\ calc.result.impactScore = Zero
        /\ calc.result.impactDirection = "neutral"

C6_Witness ==
    /\ calc.fn = "client"
    /\ calc.result.priceAtT = 0
    /\ \A k \in TfKeySet : Resolved(k) /\ calc.result.timeframes[k].price # Null

\* C7: if no offset has a resolved non-null change, the score is exactly 0 and
\* the direction neutral, whatever the baseline; likewise calculateMacroImpact
\* when no window is locked with a non-null change.
C7_NoEvidence ==
    /\ (IsCalcResult
        /\ \A k \in CalcKeys : ~Resolved(k) \/ calc.result.timeframes[k].change = NullChange)
           => (calc.result.impactScore = Zero /\ calc.result.impactDirection = "neutral")
    /\ (calc.fn = "macro"
        /\ \A k \in TfKeySet : \/ ~calc.result.windows[k].locked
                               \/ calc.result.windows[k].change = NullChange)
           => (calc.result.impact.score = Zero /\ calc.result.impact.direction = "neutral")

C7_Witness ==
    /\ calc.fn = "client"
    /\ calc.result.priceAtT = BasePrice
    /\ Resolved("1m") /\ Resolved("10m") /\ ~Resolved("30m")
    /\ \A k \in TfKeySet : calc.result.timeframes[k].change = NullChange
    /\ calc.result.impactScore = Zero

\* the weighted vote, stated directly over the result
Counted(k) == Resolved(k) /\ calc.result.timeframes[k].change # NullChange
Up(k) == Counted(k) /\ calc.result.timeframes[k].change.n > 0
Down(k) == Counted(k) /\ calc.result.timeframes[k].change.n < 0
Vote(P(_)) == (IF P("1m") THEN 4 ELSE 0) + (IF P("10m") THEN 3 ELSE 0)
              + (IF P("30m") THEN 2 ELSE 0) + (IF P("1h") THEN 1 ELSE 0)
Magnitude(k, w) == IF Counted(k) THEN RScale(RAbs(calc.result.timeframes[k].change), w)
                   ELSE Zero
MagnitudeSum == RAdd(RAdd(Magnitude("1m", 4), Magnitude("10m", 3)),
                     RAdd(Magnitude("30m", 2), Magnitude("1h", 1)))

\* C8: with weights 1m=4, 10m=3, 30m=2, 1h=1 over resolved offsets with
\* non-null change, the direction is positive iff positiveWeight >
\* negativeWeight, negative iff the reverse, and neutral otherwise, exact
\* weighted ties included.
C8_WeightedDirection ==
    (calc.fn = "client" /\ calc.result.priceAtT # Null) =>
        /\ calc.result.impactDirection = "positive" <=> Vote(Up) > Vote(Down)
        /\ calc.result.impactDirection = "negative" <=> Vote(Down) > Vote(Up)
        /\ calc.result.impactDirection = "neutral" <=> Vote(Up) = Vote(Down)

C8_Witness ==
    /\ calc.fn = "client"
    /\ Up("1m") /\ Down("10m") /\ Down("30m") /\ Up("1h")
    /\ calc.result.impactDirection = "neutral"
    /\ RLess(Zero, calc.result.impactScore)

\* C9: score = (sum of |change| * weight / totalWeight) * (max(positiveWeight,
\* negativeWeight) / totalWeight); so score >= 0, score <= the weighted mean
\* magnitude, and when every counted change is strictly positive the direction
\* is positive, the consistency is 1 and score > 0.
C9_ScoreFormula ==
    (calc.fn = "client" /\ calc.result.priceAtT # Null) =>
        LET W == Vote(Counted)
            avg == IF W > 0 THEN RDivInt(MagnitudeSum, W) ELSE Zero
            cons == IF W > 0 THEN Norm(Max(Vote(Up), Vote(Down)), W) ELSE Zero
        IN  /\ calc.result.impactScore = RMul(avg, cons)
            /\ RLeq(Zero, calc.result.impactScore)
            /\ RLeq(calc.result.impactScore, avg)
            /\ (W > 0 /\ Vote(Up) = W) =>
                  /\ calc.result.impactDirection = "positive"
                  /\ cons = [n |-> 1, d |-> 1]
                  /\ calc.result.impactScore = avg
                  /\ RLess(Zero, calc.result.impactScore)

\* the scenario: baseline 100, +1m 101, +10m 102, +30m unavailable, +1h pending
C9_Witness ==
    /\ calc.fn = "client"
    /\ calc.result.priceAtT = 100
    /\ calc.result.timeframes["1m"] =
          [price |-> 101, change |-> [n |-> 1, d |-> 1], pending |-> FALSE]
    /\ calc.result.timeframes["10m"] =
          [price |-> 102, change |-> [n |-> 2, d |-> 1], pending |-> FALSE]
    /\ calc.result.timeframes["30m"] =
          [price |-> Null, change |-> NullChange, pending |-> FALSE]
    /\ calc.result.timeframes["1h"].pending
    /\ calc.result.impactDirection = "positive"
    /\ calc.result.impactScore = [n |-> 10, d |-> 7]

----------------------------------------------------------------------------
(* Cache layer: the `tweets` table and saveTweetImpact (lib/supabase)      *)
(* A row is keyed by (id, asset); the four timeframe_* columns are the     *)
(* function `timeframes`.                                                  *)

Assets == {"ETH", "BTC"}
TweetIds == {"t1", "t2"}
StoreKeys == TweetIds \X Assets

NoRecord == [absent |-> TRUE]
EmptyTable == [key \in StoreKeys |-> NoRecord]

\* the row the insert branch writes
InsertedRow(tweet) ==
    [price_at_t |-> tweet.priceAtT,
     timeframes |-> tweet.timeframes,
     impact_score |-> tweet.impactScore,
     impact_direction |-> tweet.impactDirection]

\* UpdatesOf without the "was pending" test on the stored column
UpdatesOf_NoPendingGuard(existing, tweet) ==
    [price_at_t |-> existing.price_at_t = Null /\ tweet.priceAtT # Null,
     timeframes |-> {k \in TfKeySet : ~tweet.timeframes[k].pending}]

\* the columns the update branch puts into `updates`
UpdatesOf(existing, tweet) ==
    [price_at_t |-> existing.price_at_t = Null /\ tweet.priceAtT # Null,
     timeframes |-> {k \in TfKeySet : /\ existing.timeframes[k].pending
                                      /\ ~tweet.timeframes[k].pending}]

\* Object.keys(updates).length > 1
HasUpdates(u) == u.price_at_t \/ u.timeframes # {}

\* the UPDATE statement applied to the row as it is when the write arrives
UpdatedRow(row, u, tweet) ==
    [price_at_t |-> IF u.price_at_t THEN tweet.priceAtT ELSE row.price_at_t,
     timeframes |-> [k \in TfKeySet |->
                        IF k \in u.timeframes THEN tweet.timeframes[k]
                        ELSE row.timeframes[k]],
     impact_score |-> tweet.impactScore,
     impact_direction |-> tweet.impactDirection]

\* saveTweetImpact run without interleaving on table `table`.  readOk and
\* writeOk say whether the select and the update/insert succeed; a failed
\* select yields no `existing`, and an insert of a key that is present is
\* rejected by the table.  Returns the table and the promised boolean.
saveTweetImpact(table, key, tweet, readOk, writeOk) ==
    LET existing == IF readOk THEN table[key] ELSE NoRecord
    IN  IF existing # NoRecord
        THEN LET u == UpdatesOf(existing, tweet)
             IN  IF HasUpdates(u)
                 THEN IF writeOk
                      THEN [table |-> [table EXCEPT ![key] = UpdatedRow(@, u, tweet)],
                            ok |-> TRUE]
                      ELSE [table |-> table, ok |-> FALSE]
                 ELSE [table |-> table, ok |-> TRUE]
        ELSE IF writeOk /\ table[key] = NoRecord
             THEN [table |-> [table EXCEPT ![key] = InsertedRow(tweet)], ok |-> TRUE]
             ELSE [table |-> table, ok |-> FALSE]

\* storedTweetToAppFormat
storedTweetToAppFormat(stored) ==
    [priceAtT |-> stored.price_at_t,
     timeframes |-> stored.timeframes,
     impactScore |-> stored.impact_score,
     impactDirection |-> stored.impact_direction]

----------------------------------------------------------------------------
(* Specification SpecStore: saveTweetImpact called again and again on one  *)
(* key, with the results the calculator produces as time passes            *)

StorePrices == {Null, BasePrice - 1, BasePrice + 1}
StoreResponses(timestamp, t) ==
    {[k \in TfKeySet \cup {"base"} |->
         IF k = "base" THEN b ELSE IF k \in DOMAIN r THEN r[k] ELSE Null] :
       b \in {Null, BasePrice},
       r \in [Elapsed(TfKeySet, TIMEFRAME_CONFIGS, timestamp, t) -> StorePrices]}
StoreClock == {EventTime + TIMEFRAME_CONFIGS[k] : k \in {"1m", "1h"}}
SaveKey == <<"t1", "ETH">>

\* what the last call did: `kept` are the columns for which it carried a
\* resolved value different from the resolved value already stored
NoSave == [ok |-> FALSE, kept |-> {}]

InitStore ==
    /\ now = EventTime + TIMEFRAME_CONFIGS["1m"]
    /\ store = EmptyTable
    /\ saves = NoSave
    /\ calc = Idle /\ news = Idle /\ macro = Idle

Differing(row, tweet) ==
    IF row = NoRecord THEN {}
    ELSE {k \in TfKeySet : /\ ~row.timeframes[k].pending
                           /\ ~tweet.timeframes[k].pending
                           /\ row.timeframes[k] # tweet.timeframes[k]}

\* one call of saveTweetImpact with a calculator result computed at `now`
SaveTweetImpact ==
    /\ \E resp \in StoreResponses(EventTime, now), fail \in {"none", "read", "write"} :
          LET tweet == fetchMultiTimeframePricesClient(EventTime, now, resp)
              r == saveTweetImpact(store, SaveKey, tweet, fail # "read", fail # "write")
          IN  /\ store' = r.table
              /\ saves' = [ok |-> r.ok, kept |-> Differing(store[SaveKey], tweet)]
    /\ UNCHANGED <<now, calc, news, macro>>

StoreClockAdvance ==
    /\ \E t \in StoreClock : t > now /\ now' = t
    /\ UNCHANGED <<calc, store, saves, news, macro>>

NextStore == SaveTweetImpact \/ StoreClockAdvance

SpecStore == InitStore /\ [][NextStore]_vars

\* C2: once a timeframe column is stored with pending = false and value v1, a
\* later saveTweetImpact call carrying a different non-pending value for it
\* leaves the stored value at v1.
C2_CacheNonRegression ==
    [][\A k \in TfKeySet :
          (store[SaveKey] # NoRecord /\ ~store[SaveKey].timeframes[k].pending)
              => store'[SaveKey].timeframes[k] = store[SaveKey].timeframes[k]]_vars

\* a later call carried another resolved value for 1m, which stayed as it was
\* stored, while the call did fill the 10m column that was still pending
C2_Witness ==
    /\ saves.ok /\ saves.kept = {"1m"}
    /\ store[SaveKey].timeframes["1m"].price = BasePrice + 1
    /\ ~store[SaveKey].timeframes["10m"].pending

----------------------------------------------------------------------------
(* useNewsFeed (page.tsx)                                                  *)
(*                                                                         *)
(* news.tweets           the `tweets` state (id -> price data; the text    *)
(*                       fields never change and are left out)             *)
(* news.shown            the asset of the pass that last initialised       *)
(*                       `tweets` (history variable)                       *)
(* news.currentAssetRef  currentAssetRef.current                           *)
(* news.cached           cachedTweetsByAssetRef: asset -> Map object, 0    *)
(*                       when the asset has none                           *)
(* news.maps             the Map objects, named by the pass that made them *)
(* news.passes           the runs of fetchPrices, one per effect run       *)
(* news.refreshes        the updateTweetPrice calls in flight              *)
(*                                                                         *)
(* fetchMultiTimeframePricesClient reads Date.now() when it is called and  *)
(* returns later: a call is started at news time callT and its result is   *)
(* computed from callT and the answers of the upstream when it returns.    *)
(* saveTweetImpact is started without being awaited; here it runs to       *)
(* completion where it is started (its interleavings are the subject of    *)
(* SpecStore), and the store answers.                                      *)

MaxUserActions == 2     \* asset selections and refresh clicks after mount
MaxPasses == MaxUserActions + 1     \* runs of fetchPrices, the first included
UserActions(n) == (Len(n.passes) - 1) + n.refreshed

TweetOrder == <<"t1", "t2">>                     \* rawTweets
TweetTime == [id \in TweetIds |->
                 IF id = "t1" THEN EventTime
                 ELSE EventTime + TIMEFRAME_CONFIGS["10m"]]

NewsClock == {EventTime + TIMEFRAME_CONFIGS["1m"],
              EventTime + TIMEFRAME_CONFIGS["10m"]}
NewsPrices == {Null, BasePrice + 1}
NewsResponses(timestamp, t) ==
    {[k \in TfKeySet \cup {"base"} |->
         IF k = "base" THEN b ELSE IF k \in DOMAIN r THEN r[k] ELSE Null] :
       b \in {Null, BasePrice},
       r \in [Elapsed(TfKeySet, TIMEFRAME_CONFIGS, timestamp, t) -> NewsPrices]}

NoTweets == <<>>                    \* useState([])
NoMap == [id \in TweetIds |-> NoRecord]
PendingTweet ==
    [priceAtT |-> Null, timeframes |-> EMPTY_TIMEFRAMES,
     impactScore |-> Zero, impactDirection |-> "neutral"]

\* getStoredTweetsForAsset mapped through storedTweetToAppFormat into a Map
CachedMapOf(table, asset) ==
    [id \in TweetIds |->
        IF table[<<id, asset>>] = NoRecord THEN NoRecord
        ELSE storedTweetToAppFormat(table[<<id, asset>>])]

\* initializedTweets: cached data when its baseline is known, else pending
InitializedTweets(cachedMap) ==
    [id \in TweetIds |->
        IF cachedMap[id] # NoRecord /\ cachedMap[id].priceAtT # Null
        THEN cachedMap[id] ELSE PendingTweet]

NeedsFetch(tweet) ==
    \/ tweet.priceAtT = Null
    \/ \E k \in TfKeySet : tweet.timeframes[k].pending

\* the first index from i on that the loop does not `continue` past, or 0
RECURSIVE NextToFetch(_, _, _)
NextToFetch(initialized, passNow, i) ==
    IF i > Len(TweetOrder) THEN 0
    ELSE LET id == TweetOrder[i]
         IN  IF \/ TweetTime[id] <= 0
                \/ TweetTime[id] > passNow
                \/ ~NeedsFetch(initialized[id])
             THEN NextToFetch(initialized, passNow, i + 1)
             ELSE i

NoPass == [pc |-> "none", asset |-> "ETH", passNow |-> 0, i |-> 0,
           initialized |-> NoTweets, map |-> 0, callT |-> 0]

\* a pass that has returned keeps nothing
Finished(p) == [NoPass EXCEPT !.pc = "done", !.asset = p.asset]

\* the loop of pass p from index i up to its next await
PassLoopFrom(p, i, t) ==
    LET j == NextToFetch(p.initialized, p.passNow, i)
    IN  IF j = 0 THEN Finished(p)
        ELSE [p EXCEPT !.pc = "calc", !.i = j, !.callT = t]

\* fetchPrices of pass i from `setTweets(initializedTweets)` up to its next await
PassInitialize(n, i, mapId, t) ==
    LET initialized == InitializedTweets(n.maps[mapId])
        p == [n.passes[i] EXCEPT !.initialized = initialized, !.map = mapId]
    IN  [n EXCEPT !.tweets = initialized, !.shown = p.asset,
                  !.passes[i] = PassLoopFrom(p, 1, t)]

\* the effect on [rawTweets, selectedAsset]: set the ref and start fetchPrices
StartPass(n, asset, t) ==
    LET i == Len(n.passes) + 1
        n1 == [n EXCEPT !.currentAssetRef = asset,
                        !.passes = Append(@, [NoPass EXCEPT !.pc = "cache",
                                                            !.asset = asset,
                                                            !.passNow = t])]
    IN  IF n1.cached[asset] # 0
        THEN PassInitialize(n1, i, n1.cached[asset], t)
        ELSE n1

InitNews ==
    /\ now = EventTime + TIMEFRAME_CONFIGS["1m"]
    /\ store = EmptyTable
    /\ news = StartPass([selectedAsset |-> "ETH", currentAssetRef |-> "ETH",
                         tweets |-> NoTweets, shown |-> "none",
                         cached |-> [a \in Assets |-> 0],
                         maps |-> [m \in 1..MaxPasses |-> NoMap],
                         passes |-> <<>>, refreshes |-> {}, refreshed |-> 0],
                        "ETH", now)
    /\ calc = Idle /\ saves = Idle /\ macro = Idle

\* the user picks another asset: the effect runs again
SelectAsset ==
    /\ UserActions(news) < MaxUserActions
    /\ \E a \in Assets \ {news.selectedAsset} :
          news' = StartPass([news EXCEPT !.selectedAsset = a], a, now)
    /\ UNCHANGED <<now, calc, store, saves, macro>>

\* getStoredTweetsForAsset returns to a pass (an empty list when it fails)
PassCacheLoaded ==
    /\ \E i \in 1..Len(news.passes), readOk \in BOOLEAN :
          LET p == news.passes[i]
              cachedMap == IF readOk THEN CachedMapOf(store, p.asset) ELSE NoMap
              n1 == [news EXCEPT !.maps[i] = cachedMap, !.cached[p.asset] = i]
          IN  /\ p.pc = "cache"
              /\ news' = IF n1.currentAssetRef # p.asset
                         THEN [n1 EXCEPT !.passes[i] = Finished(p)]
                         ELSE PassInitialize(n1, i, i, now)
    /\ UNCHANGED <<now, calc, store, saves, macro>>

\* what a price result writes: setTweets(prev => prev.map(...)) on tweet id
WriteTweet(tweets, id, priceData) ==
    [x \in DOMAIN tweets |-> IF x = id THEN priceData ELSE tweets[x]]

\* fetchMultiTimeframePricesClient returns to a pass: guard, setTweets,
\* cachedMap.set, saveTweetImpact, then the throttle delay or the loop's end
PassCalcDone ==
    /\ \E i \in 1..Len(news.passes) :
          LET p == news.passes[i]
              id == TweetOrder[p.i]
          IN  /\ p.pc = "calc"
              /\ \E resp \in NewsResponses(TweetTime[id], p.callT) :
                    LET priceData ==
                            fetchMultiTimeframePricesClient(TweetTime[id], p.callT, resp)
                    IN  IF news.currentAssetRef # p.asset
                        THEN /\ news' = [news EXCEPT !.passes[i] = Finished(p)]
                             /\ store' = store
                        ELSE /\ news' =
                                  [news EXCEPT
                                     !.tweets = WriteTweet(@, id, priceData),
                                     !.maps[p.map][id] = priceData,
                                     !.passes[i] =
                                        IF p.i < Len(TweetOrder)
                                        THEN [p EXCEPT !.pc = "delay"]
                                        ELSE Finished(p)]
                             /\ store' = saveTweetImpact(store, <<id, p.asset>>,
                                                         priceData, TRUE, TRUE).table
    /\ UNCHANGED <<now, calc, saves, macro>>

\* the throttle delay of a pass ends: the next iteration, up to its await
PassDelayDone ==
    /\ \E i \in 1..Len(news.passes) :
          LET p == news.passes[i]
          IN  /\ p.pc = "delay"
              /\ news' = [news EXCEPT !.passes[i] =
                            IF news.currentAssetRef # p.asset THEN Finished(p)
                            ELSE PassLoopFrom(p, p.i + 1, now)]
    /\ UNCHANGED <<now, calc, store, saves, macro>>

\* the user refreshes a displayed tweet: updateTweetPrice(tweetId, timestamp)
\* of the current render starts, closing over selectedAsset
UpdateTweetPrice ==
    /\ UserActions(news) < MaxUserActions
    /\ \E id \in DOMAIN news.tweets :
          news' = [news EXCEPT
                     !.refreshed = @ + 1,
                     !.refreshes = @ \cup {[id |-> id, asset |-> news.selectedAsset,
                                            callT |-> now]}]
    /\ UNCHANGED <<now, calc, store, saves, macro>>

\* its fetchMultiTimeframePricesClient returns: setTweets and saveTweetImpact
UpdateTweetPriceDone ==
    /\ \E r \in news.refreshes :
          \E resp \in NewsResponses(TweetTime[r.id], r.callT) :
             LET priceData ==
                     fetchMultiTimeframePricesClient(TweetTime[r.id], r.callT, resp)
                 shownNow == r.id \in DOMAIN news.tweets
             IN  /\ news' = [news EXCEPT !.tweets = WriteTweet(@, r.id, priceData),
                                         !.refreshes = @ \ {r}]
                 /\ store' = IF shownNow
                             THEN saveTweetImpact(store, <<r.id, r.asset>>,
                                                  priceData, TRUE, TRUE).table
                             ELSE store
    /\ UNCHANGED <<now, calc, saves, macro>>

NewsClockAdvance ==
    /\ \E t \in NewsClock : t > now /\ now' = t
    /\ UNCHANGED <<calc, store, saves, news, macro>>

NextNews ==
    \/ SelectAsset
    \/ PassCacheLoaded
    \/ PassCalcDone
    \/ PassDelayDone
    \/ UpdateTweetPrice
    \/ UpdateTweetPriceDone
    \/ NewsClockAdvance

SpecNews == InitNews /\ [][NextNews]_vars

\* C1: once a timeframe of a tweet is resolved (pending = false) in the tweets
\* state, no later price pass over that tweet (a fetchPrices pass or an
\* updateTweetPrice refresh returning its result) changes that timeframe's
\* price or change.
C1_WriteOnce ==
    [][(PassCalcDone \/ UpdateTweetPriceDone) =>
          \A id \in DOMAIN news.tweets, k \in TfKeySet :
              ~news.tweets[id].timeframes[k].pending =>
                  /\ news'.tweets[id].timeframes[k].price
                        = news.tweets[id].timeframes[k].price
                  /\ news'.tweets[id].timeframes[k].change
                        = news.tweets[id].timeframes[k].change]_vars

----------------------------------------------------------------------------
(* useMacroEvents (page.tsx) and the macro_events table (lib/supabase)     *)
(*                                                                         *)
(* macro.events     the `events` state: id -> event (empty before the      *)
(*                  first setEvents of fetchAndBackfill)                   *)
(* macro.ticks      interval callbacks waiting for fetchCurrentPrice       *)
(* macro.backfill   fetchAndBackfill: where it is, the events it still     *)
(*                  has to backfill, and what backfillMacroEventPrices     *)
(*                  holds across its awaits                                *)
(* macro.trail      the statuses each event went through (history)         *)
(*                                                                         *)
(* The asset selection is fixed, so the effect runs fetchAndBackfill once  *)
(* and `currentAssetRef.current !== asset` is never true.  Prices answered *)
(* by the upstream are positive.                                           *)

MaxTicks == 2       \* interval callbacks in flight at once

MacroAsset == "ETH"
EventIds == {"e1", "e2"}
EventOrder == <<"e1", "e2">>                     \* data.events

MACRO_WINDOWS ==
    [k \in TfKeySet |->
        CASE k = "1m"  -> 60 * 1000
          [] k = "10m" -> 10 * 60 * 1000
          [] k = "30m" -> 30 * 60 * 1000
          [] k = "1h"  -> 60 * 60 * 1000]

\* the events the API lists: e1 is out at the start, e2 comes ten minutes later
MacroEventList ==
    [id \in EventIds |->
        IF id = "e1" THEN [timestamp |-> EventTime, hasActual |-> TRUE]
        ELSE [timestamp |-> EventTime + MACRO_WINDOWS["10m"], hasActual |-> FALSE]]

MacroClock == {EventTime + d : d \in {MACRO_WINDOWS["1m"],
                                      MACRO_WINDOWS["10m"],
                                      MACRO_WINDOWS["30m"],
                                      MACRO_WINDOWS["1h"],
                                      MACRO_WINDOWS["10m"] + MACRO_WINDOWS["1h"]}}
MacroPrices == {BasePrice, BasePrice + 1}

UnlockedWindow == [price |-> Null, change |-> NullChange, locked |-> FALSE]
emptyWindows == [k \in TfKeySet |-> UnlockedWindow]

\* ((price - baselinePrice) / baselinePrice) * 100, baselinePrice > 0
MacroChange(price, baselinePrice) ==
    Norm((price - baselinePrice) * 100, baselinePrice)

\* Binance klines from startTime: nothing when the time is still to come
HistoricalPrices(timestamp, t) ==
    IF timestamp > t THEN {Null} ELSE {Null, BasePrice}

\* one iteration of the window loop of backfillMacroEventPrices
BackfillWindow(timestamp, t, baselinePrice, key, price) ==
    IF timestamp + MACRO_WINDOWS[key] <= t /\ price # Null
    THEN [price |-> price, change |-> MacroChange(price, baselinePrice),
          locked |-> TRUE]
    ELSE UnlockedWindow

\* the macro_events table
MacroKeys == EventIds \X {MacroAsset}
EmptyMacroTable == [key \in MacroKeys |-> NoRecord]

\* saveMacroEventPrices: delete the row, then insert the new one (both
\* succeeding; the table is read once, before any save of the session)
saveMacroEventPrices(table, id, asset, baselinePrice, priceWindows) ==
    [table EXCEPT ![<<id, asset>>] =
        [baseline_price |-> baselinePrice, windows |-> priceWindows]]

storedMacroEventToAppFormat(stored) ==
    [baselinePrice |-> stored.baseline_price, priceWindows |-> stored.windows]

\* eventsWithTracking: stored data when its baseline is known, else released
\* or upcoming by `actual` and the clock
EventsWithTracking(storedMap, t) ==
    [id \in EventIds |->
        LET event == MacroEventList[id]
            isReleased == event.hasActual \/ event.timestamp <= t
            stored == storedMap[<<id, MacroAsset>>]
        IN  IF stored # NoRecord /\ stored.baseline_price # Null
            THEN [timestamp |-> event.timestamp,
                  baselinePrice |-> storedMacroEventToAppFormat(stored).baselinePrice,
                  priceWindows |-> storedMacroEventToAppFormat(stored).priceWindows,
                  status |-> "complete"]
            ELSE [timestamp |-> event.timestamp,
                  baselinePrice |-> Null,
                  priceWindows |-> emptyWindows,
                  status |-> IF isReleased THEN "released" ELSE "upcoming"]]

\* eventsToBackfill, in the order of the list
EventsToBackfill(events) ==
    SelectSeq(EventOrder, LAMBDA id : /\ events[id].status = "released"
                                      /\ events[id].baselinePrice = Null)

\* the history of statuses, extended where the status changed
Trail(trail, before, after) ==
    [id \in DOMAIN after |->
        IF id \notin DOMAIN before THEN <<after[id].status>>
        ELSE IF after[id].status # before[id].status
             THEN Append(trail[id], after[id].status)
             ELSE trail[id]]

NoBackfill == [pc |-> "fetch", queue |-> <<>>, baselinePrice |-> Null, t |-> 0]

\* the loop of fetchAndBackfill from its next event up to its next await
BackfillLoop(queue) ==
    IF queue = <<>> THEN [NoBackfill EXCEPT !.pc = "done"]
    ELSE [NoBackfill EXCEPT !.pc = "baseline", !.queue = queue]

\* ReleaseDue without the test of the clock
ReleaseDue_Early(event, t) == event.status = "upcoming"

\* the first updater of a tick releases an upcoming event whose time has come
ReleaseDue(event, t) == event.status = "upcoming" /\ event.timestamp <= t

TickRelease(events, t) ==
    [id \in DOMAIN events |->
        IF ReleaseDue(events[id], t) THEN [events[id] EXCEPT !.status = "released"]
        ELSE events[id]]

\* TrackEvent that treats every window as not yet locked
TrackEvent_UpdatesLocked(event, t, currentPrice) ==
    IF event.status = "complete" \/ event.status = "upcoming" THEN event
    ELSE IF event.baselinePrice = Null /\ event.status = "released"
    THEN [event EXCEPT !.baselinePrice = currentPrice, !.status = "tracking"]
    ELSE LET shouldLock(k) == t - event.timestamp >= MACRO_WINDOWS[k]
         IN  [event EXCEPT
                !.priceWindows =
                    [k \in TfKeySet |->
                        [price |-> currentPrice,
                         change |-> MacroChange(currentPrice, event.baselinePrice),
                         locked |-> shouldLock(k)]],
                !.status = IF \A k \in TfKeySet : shouldLock(k) THEN "complete"
                           ELSE "tracking"]

\* the second updater of a tick, for one event
TrackEvent(event, t, currentPrice) ==
    IF event.status = "complete" \/ event.status = "upcoming" THEN event
    ELSE IF event.baselinePrice = Null /\ event.status = "released"
    THEN [event EXCEPT !.baselinePrice = currentPrice, !.status = "tracking"]
    ELSE IF event.status = "tracking" /\ event.baselinePrice # Null
    THEN LET unlocked == {k \in TfKeySet : ~event.priceWindows[k].locked}
             shouldLock(k) == t - event.timestamp >= MACRO_WINDOWS[k]
             newWindows ==
                 [k \in TfKeySet |->
                     IF k \in unlocked
                     THEN [price |-> currentPrice,
                           change |-> MacroChange(currentPrice, event.baselinePrice),
                           locked |-> shouldLock(k)]
                     ELSE event.priceWindows[k]]
             allLocked == \A k \in unlocked : shouldLock(k)
         IN  IF unlocked # {}
             THEN [event EXCEPT !.priceWindows = newWindows,
                                !.status = IF allLocked THEN "complete"
                                           ELSE "tracking"]
             ELSE event
    ELSE event

\* CompletedByTick that takes every complete event, whatever it was before
CompletedByTick_Any(before, after) ==
    {id \in DOMAIN before : after[id].status = "complete"}

\* the events for which the second updater reaches `newStatus === "complete"`
CompletedByTick(before, after) ==
    {id \in DOMAIN before : /\ before[id].status = "tracking"
                            /\ after[id].status = "complete"}

\* the second updater without the `currentPrice === null` return before it
TickPoll_NoNullCheck(events, t, currentPrice) ==
    [id \in DOMAIN events |-> TrackEvent(events[id], t, currentPrice)]

\* what a tick does to `events` once fetchCurrentPrice has returned
TickPoll(events, t, currentPrice) ==
    IF currentPrice = Null THEN events
    ELSE [id \in DOMAIN events |-> TrackEvent(events[id], t, currentPrice)]

\* the rows the second updater saves: the events whose tracking completed
TrackSaves(table, before, after) ==
    [key \in MacroKeys |->
        LET id == key[1]
        IN  IF id \in CompletedByTick(before, after)
            THEN saveMacroEventPrices(table, id, MacroAsset, before[id].baselinePrice,
                                      after[id].priceWindows)[key]
            ELSE table[key]]

\* the saveMacroEventPrices calls made so far, by caller (history)
NoMacroSaves == [id \in EventIds |-> [tick |-> 0, backfill |-> 0]]

\* a row left by an earlier session
StoredEarlier ==
    [baseline_price |-> BasePrice,
     windows |-> [k \in TfKeySet |->
                    [price |-> BasePrice + 1,
                     change |-> MacroChange(BasePrice + 1, BasePrice),
                     locked |-> TRUE]]]

InitMacro ==
    /\ now = EventTime
    /\ store \in {EmptyMacroTable,
                  [EmptyMacroTable EXCEPT ![<<"e1", MacroAsset>>] = StoredEarlier]}
    /\ macro = [events |-> <<>>, trail |-> <<>>, ticks |-> 0, backfill |-> NoBackfill,
                lastPoll |-> "none"]
    /\ saves = NoMacroSaves
    /\ calc = Idle /\ news = Idle

\* the events and the stored prices arrive (or the fetch throws):
\* setEvents(eventsWithTracking), then the loop up to its first await
FetchAndBackfill ==
    /\ macro.backfill.pc = "fetch"
    /\ \E fetchOk \in BOOLEAN, readOk \in BOOLEAN :
          IF ~fetchOk
          THEN macro' = [macro EXCEPT !.backfill.pc = "done"]
          ELSE LET storedMap == IF readOk THEN store ELSE EmptyMacroTable
                   events == EventsWithTracking(storedMap, now)
               IN  macro' = [macro EXCEPT
                               !.events = events,
                               !.trail = Trail(macro.trail, macro.events, events),
                               !.backfill = BackfillLoop(EventsToBackfill(events))]
    /\ UNCHANGED <<now, calc, store, saves, news>>

\* backfillMacroEventPrices: the baseline request returns; without a baseline
\* the event is left as it is, else the delay passes and `now` is read
BackfillBaseline ==
    /\ macro.backfill.pc = "baseline"
    /\ LET id == Head(macro.backfill.queue)
       IN  \E baselinePrice \in HistoricalPrices(MacroEventList[id].timestamp, now) :
              macro' = [macro EXCEPT !.backfill =
                          IF baselinePrice = Null
                          THEN BackfillLoop(Tail(macro.backfill.queue))
                          ELSE [@ EXCEPT !.pc = "windows",
                                         !.baselinePrice = baselinePrice,
                                         !.t = now]]
    /\ UNCHANGED <<now, calc, store, saves, news>>

\* backfillMacroEventPrices returns: setEvents marks the event complete and
\* saveMacroEventPrices is called
BackfillWindows ==
    /\ macro.backfill.pc = "windows"
    /\ LET id == Head(macro.backfill.queue)
           b == macro.backfill
           timestamp == MacroEventList[id].timestamp
       IN  \E resp \in [TfKeySet -> {Null, BasePrice}] :
              LET priceWindows ==
                      [k \in TfKeySet |->
                          BackfillWindow(timestamp, b.t, b.baselinePrice, k, resp[k])]
                  events == [macro.events EXCEPT
                               ![id] = [@ EXCEPT !.baselinePrice = b.baselinePrice,
                                                 !.priceWindows = priceWindows,
                                                 !.status = "complete"]]
              IN  /\ \A k \in TfKeySet :
                        resp[k] \in HistoricalPrices(timestamp + MACRO_WINDOWS[k], b.t)
                  /\ macro' = [macro EXCEPT
                                 !.events = events,
                                 !.trail = Trail(macro.trail, macro.events, events),
                                 !.backfill.pc = "save"]
                  /\ store' = saveMacroEventPrices(store, id, MacroAsset,
                                                   b.baselinePrice, priceWindows)
                  /\ saves' = [saves EXCEPT ![id].backfill = @ + 1]
    /\ UNCHANGED <<now, calc, news>>

\* saveMacroEventPrices has returned: the next event of the loop
BackfillSaved ==
    /\ macro.backfill.pc = "save"
    /\ macro' = [macro EXCEPT !.backfill = BackfillLoop(Tail(macro.backfill.queue))]
    /\ UNCHANGED <<now, calc, store, saves, news>>

\* the interval fires: the first setEvents, then fetchCurrentPrice is awaited
Tick ==
    /\ macro.ticks < MaxTicks
    /\ LET events == TickRelease(macro.events, now)
       IN  macro' = [macro EXCEPT !.events = events,
                                  !.trail = Trail(macro.trail, macro.events, events),
                                  !.ticks = @ + 1]
    /\ UNCHANGED <<now, calc, store, saves, news>>

\* fetchCurrentPrice returns currentPrice to a tick: nothing on null, else the
\* second setEvents with the clock read again
TickPriceOf(currentPrice) ==
    /\ macro.ticks > 0
    /\ LET events == TickPoll(macro.events, now, currentPrice)
           saved == CompletedByTick(macro.events, events)
       IN  /\ macro' = [macro EXCEPT
                          !.events = events,
                          !.trail = Trail(macro.trail, macro.events, events),
                          !.ticks = @ - 1,
                          !.lastPoll = IF currentPrice = Null THEN "failed" ELSE "ok"]
           /\ store' = TrackSaves(store, macro.events, events)
           /\ saves' = [id \in EventIds |->
                           IF id \in saved THEN [saves[id] EXCEPT !.tick = @ + 1]
                           ELSE saves[id]]
    /\ UNCHANGED <<now, calc, news>>

TickPrice == \E currentPrice \in MacroPrices \cup {Null} : TickPriceOf(currentPrice)

MacroClockAdvance ==
    /\ \E t \in MacroClock : t > now /\ now' = t
    /\ UNCHANGED <<calc, store, saves, news, macro>>

NextMacro ==
    \/ FetchAndBackfill
    \/ BackfillBaseline
    \/ BackfillWindows
    \/ BackfillSaved
    \/ Tick
    \/ TickPrice
    \/ MacroClockAdvance

SpecMacro == InitMacro /\ [][NextMacro]_vars

StatusChange(id) == <<macro.events[id].status, macro'.events[id].status>>

\* C10 as stated: an event's status changes only by upcoming -> released,
\* released -> tracking and tracking -> complete (tracking -> tracking being
\* no change), and upcoming -> released only at a tick with now >= timestamp.
C10_StatusTransitions_Original ==
    [][\A id \in DOMAIN macro.events :
          macro'.events[id].status # macro.events[id].status =>
              /\ StatusChange(id) \in {<<"upcoming", "released">>,
                                       <<"released", "tracking">>,
                                       <<"tracking", "complete">>}
              /\ macro.events[id].status = "upcoming" =>
                    /\ macro'.ticks = macro.ticks + 1
                    /\ now >= macro.events[id].timestamp]_vars

\* C10 amended: the status changes only by upcoming -> released, released ->
\* tracking, tracking -> complete, and released -> complete when the backfill
\* of fetchAndBackfill returns a baseline for the event; never backwards; and
\* upcoming -> released only at a tick with now >= timestamp.
C10_StatusTransitions ==
    [][\A id \in DOMAIN macro.events :
          macro'.events[id].status # macro.events[id].status =>
              /\ StatusChange(id) \in {<<"upcoming", "released">>,
                                       <<"released", "tracking">>,
                                       <<"tracking", "complete">>,
                                       <<"released", "complete">>}
              /\ StatusChange(id) = <<"released", "complete">> =>
                    /\ macro.backfill.pc = "windows"
                    /\ macro'.backfill.pc = "save"
                    /\ Head(macro.backfill.queue) = id
              /\ macro.events[id].status = "upcoming" =>
                    /\ macro'.ticks = macro.ticks + 1
                    /\ now >= macro.events[id].timestamp]_vars

\* e2 went through every state by the ticks, e1 was completed by the backfill
C10_Witness ==
    /\ macro.events # <<>>
    /\ macro.trail["e2"] = <<"upcoming", "released", "tracking", "complete">>
    /\ macro.trail["e1"] = <<"released", "complete">>

----------------------------------------------------------------------------
(* Claims about the events state (specification SpecMacro)                 *)

\* C11: in every reachable state an event with status complete has all four
\* price windows locked, whether it was completed by the tick, by the
\* backfill, or initialised from a stored record.
C11_CompleteAllLocked ==
    \A id \in DOMAIN macro.events :
        macro.events[id].status = "complete" =>
            \A k \in TfKeySet : macro.events[id].priceWindows[k].locked

\* C12: once a price window of an event is locked, no later tick and no
\* completion of the backfill changes its price or its change.
C12_LockedWindowFrozen ==
    [][\A id \in DOMAIN macro.events, k \in TfKeySet :
          macro.events[id].priceWindows[k].locked =>
              /\ macro'.events[id].priceWindows[k].price
                    = macro.events[id].priceWindows[k].price
              /\ macro'.events[id].priceWindows[k].change
                    = macro.events[id].priceWindows[k].change]_vars

\* C13: once an event is complete, no later tick and no later completion of
\* the backfill changes its baselinePrice, priceWindows or status.
C13_CompleteTerminal ==
    [][\A id \in DOMAIN macro.events :
          macro.events[id].status = "complete" =>
              /\ macro'.events[id].baselinePrice = macro.events[id].baselinePrice
              /\ macro'.events[id].priceWindows = macro.events[id].priceWindows
              /\ macro'.events[id].status = "complete"]_vars

SavesOf(log, id) == log[id].tick + log[id].backfill
CompletedAtTick(id) ==
    /\ id \in DOMAIN macro.events
    /\ macro.events[id].status = "tracking"
    /\ macro'.events[id].status = "complete"
    /\ macro'.ticks = macro.ticks - 1
BackfillReturnsFor(id) ==
    /\ macro.backfill.pc = "windows"
    /\ macro'.backfill.pc = "save"
    /\ Head(macro.backfill.queue) = id

\* C14 as stated: saveMacroEventPrices is called for an event once in all,
\* and exactly at the tick in which the event moves from tracking to
\* complete.
C14_SavedOnce_Original ==
    [][\A id \in EventIds :
          /\ SavesOf(saves', id) <= 1
          /\ SavesOf(saves', id) # SavesOf(saves, id) <=> CompletedAtTick(id)]_vars

\* C14 amended: the ticks call saveMacroEventPrices for an event at most
\* once, exactly at the tick in which the event moves from tracking to
\* complete (however many tick callbacks are in flight); fetchAndBackfill
\* calls it too, at most once per event, when the backfill of the event has
\* returned a baseline; so an event is saved at most twice.
C14_SavedOnce ==
    [][\A id \in EventIds :
          /\ saves'[id].tick <= 1
          /\ saves'[id].backfill <= 1
          /\ saves'[id].tick # saves[id].tick <=> CompletedAtTick(id)
          /\ saves'[id].backfill # saves[id].backfill => BackfillReturnsFor(id)]_vars

\* e2 was saved once, by the tick that completed it; e1 was saved by a tick
\* and by its backfill
C14_Witness ==
    /\ macro.events # <<>>
    /\ macro.trail["e2"] = <<"upcoming", "released", "tracking", "complete">>
    /\ saves["e2"] = [tick |-> 1, backfill |-> 0]
    /\ saves["e1"] = [tick |-> 1, backfill |-> 1]

\* C15 as stated: a tick whose poll fails leaves the events as they were
\* before the tick.  The outcome of the poll is not known when the tick
\* starts and every poll can fail, so no tick may change an event before its
\* poll has returned.
C15_FailedPoll_Original ==
    [][macro'.ticks = macro.ticks + 1 => macro'.events = macro.events]_vars

\* C15 amended: when fetchCurrentPrice returns null to a tick, nothing is
\* changed after it (no event field, no status, no save); before the poll
\* the tick has only moved the upcoming events whose timestamp <= now to
\* released.
C15_FailedPoll ==
    [][/\ TickPriceOf(Null) =>
             /\ macro'.events = macro.events
             /\ store' = store
             /\ saves' = saves
       /\ macro'.ticks = macro.ticks + 1 =>
             \A id \in DOMAIN macro.events :
                 \/ macro'.events[id] = macro.events[id]
                 \/ /\ macro.events[id].status = "upcoming"
                    /\ macro.events[id].timestamp <= now
                    /\ macro'.events[id] =
                          [macro.events[id] EXCEPT !.status = "released"]]_vars

\* e2 was released by a tick and every poll since has failed: it is still
\* released, without baseline
C15_Witness ==
    /\ macro.events # <<>>
    /\ macro.lastPoll = "failed"
    /\ macro.ticks = 0
    /\ macro.trail["e2"] = <<"upcoming", "released">>
    /\ macro.events["e2"].baselinePrice = Null

\* C16: an event moves from released to tracking at the first tick after its
\* release whose poll succeeds, its baselinePrice is that poll's price and
\* later ticks never change it; and a live price becomes the baseline only
\* of an event that has just been released, not of one whose release lies
\* further in the past than its windows.
C16_LiveBaseline ==
    [][\A c \in MacroPrices :
          TickPriceOf(c) =>
              \A id \in DOMAIN macro.events :
                  /\ macro.events[id].status = "released" =>
                        /\ macro'.events[id].status = "tracking"
                        /\ macro'.events[id].baselinePrice = c
                        /\ now - macro.events[id].timestamp < MACRO_WINDOWS["1h"]
                  /\ macro.events[id].status = "tracking" =>
                        macro'.events[id].baselinePrice
                            = macro.events[id].baselinePrice]_vars

\* C17: at a tick with a successful poll of price c, on a tracking event with
\* baseline b, every window not yet locked gets price c, change
\* (c - b) / b * 100 and locked = (now - timestamp >= window duration), and
\* every locked window is left unchanged; so a window is locked by the first
\* successful tick at or after the instant it closes, with that tick's price.
C17_TickUpdatesWindows ==
    [][\A c \in MacroPrices :
          TickPriceOf(c) =>
              \A id \in DOMAIN macro.events :
                  macro.events[id].status = "tracking" =>
                      LET b == macro.events[id].baselinePrice
                          age == now - macro.events[id].timestamp
                      IN  \A k \in TfKeySet :
                              macro'.events[id].priceWindows[k] =
                                  IF macro.events[id].priceWindows[k].locked
                                  THEN macro.events[id].priceWindows[k]
                                  ELSE [price |-> c,
                                        change |-> Norm((c - b) * 100, b),
                                        locked |-> age >= MACRO_WINDOWS[k]]]_vars

\* e1 is tracked live: its 1m window was locked at one price and a later tick
\* brought another price to the windows still open
C17_Witness ==
    /\ macro.events # <<>>
    /\ macro.lastPoll = "ok"
    /\ macro.events["e1"].status = "tracking"
    /\ macro.events["e1"].baselinePrice = BasePrice
    /\ macro.events["e1"].priceWindows["1m"] =
          [price |-> BasePrice + 1,
           change |-> Norm(100, BasePrice),
           locked |-> TRUE]
    /\ macro.events["e1"].priceWindows["10m"] =
          [price |-> BasePrice, change |-> Zero, locked |-> FALSE]

----------------------------------------------------------------------------
(* Specification SpecUpsert: two saveTweetImpact calls for one key, each   *)
(* split at its await between the select of `existing` and the write       *)
(*                                                                         *)
(* saves.first       the table before the two calls                        *)
(* saves.calls       caller -> the tweet it carries, where the call is     *)
(*                   ("start", "read", "done") and the `existing` it read  *)

\* the update or insert of saveTweetImpact, from the `existing` it has read,
\* on the table as it is when the write arrives
saveTweetImpactWrite(table, key, tweet, existing) ==
    IF existing # NoRecord
    THEN LET u == UpdatesOf(existing, tweet)
         IN  IF HasUpdates(u) /\ table[key] # NoRecord
             THEN [table EXCEPT ![key] = UpdatedRow(@, u, tweet)]
             ELSE table
    ELSE IF table[key] = NoRecord
         THEN [table EXCEPT ![key] = InsertedRow(tweet)]
         ELSE table

UpsertClock == {EventTime,
                EventTime + TIMEFRAME_CONFIGS["1m"],
                EventTime + TIMEFRAME_CONFIGS["10m"]}

\* the results two callers can carry for the tweet
UpsertResults ==
    UNION {{fetchMultiTimeframePricesClient(EventTime, t, resp) :
               resp \in StoreResponses(EventTime, t)} : t \in UpsertClock}

Callers == {"A", "B"}

InitUpsert ==
    /\ now = EventTime + TIMEFRAME_CONFIGS["10m"]
    /\ \E row \in {NoRecord, InsertedRow(PendingTweet)} :
          store = [EmptyTable EXCEPT ![SaveKey] = row]
    /\ \E a \in UpsertResults, b \in UpsertResults :
          saves = [first |-> store,
                   calls |-> [c \in Callers |->
                                [tweet |-> IF c = "A" THEN a ELSE b,
                                 pc |-> "start",
                                 existing |-> NoRecord]]]
    /\ calc = Idle /\ news = Idle /\ macro = Idle

\* the select of a call returns
UpsertRead ==
    /\ \E c \in Callers :
          /\ saves.calls[c].pc = "start"
          /\ saves' = [saves EXCEPT !.calls[c].pc = "read",
                                    !.calls[c].existing = store[SaveKey]]
    /\ UNCHANGED <<now, calc, store, news, macro>>

\* the update or the insert of a call is applied
UpsertWrite ==
    /\ \E c \in Callers :
          /\ saves.calls[c].pc = "read"
          /\ store' = saveTweetImpactWrite(store, SaveKey, saves.calls[c].tweet,
                                           saves.calls[c].existing)
          /\ saves' = [saves EXCEPT !.calls[c].pc = "done"]
    /\ UNCHANGED <<now, calc, news, macro>>

NextUpsert == UpsertRead \/ UpsertWrite

SpecUpsert == InitUpsert /\ [][NextUpsert]_vars

\* the record left when call x runs to its end and then call y
InOrder(x, y) ==
    saveTweetImpact(
        saveTweetImpact(saves.first, SaveKey, saves.calls[x].tweet, TRUE, TRUE).table,
        SaveKey, saves.calls[y].tweet, TRUE, TRUE).table[SaveKey]

\* C18: two saveTweetImpact upserts for one key are commutative and
\* idempotent: when both have finished, the stored record is the one left by
\* A then B and the one left by B then A, under every interleaving of the
\* reads and the writes; and two calls with the same result leave what one
\* call leaves.
C18_UpsertCommutes ==
    (\A c \in Callers : saves.calls[c].pc = "done") =>
        /\ store[SaveKey] = InOrder("A", "B")
        /\ store[SaveKey] = InOrder("B", "A")
        /\ saves.calls["A"].tweet = saves.calls["B"].tweet =>
              store[SaveKey] = saveTweetImpact(saves.first, SaveKey,
                                               saves.calls["A"].tweet,
                                               TRUE, TRUE).table[SaveKey]

----------------------------------------------------------------------------
(* Claims about stale results in useNewsFeed (specification SpecNews)      *)

\* C19: after the selected asset has changed, no price result computed for
\* the earlier asset, by a fetchPrices pass or an updateTweetPrice call still
\* in flight, is written into the tweets state: when such a computation
\* returns, the tweets stay as they are.
C19_NoStaleWrite ==
    [][/\ \A r \in news.refreshes :
             (r \notin news'.refreshes /\ r.asset # news.selectedAsset)
                 => news'.tweets = news.tweets
       /\ \A i \in 1..Len(news.passes) :
             (/\ news.passes[i].pc \in {"cache", "calc", "delay"}
              /\ news'.passes[i] # news.passes[i]
              /\ news.passes[i].asset # news.selectedAsset)
                 => news'.tweets = news.tweets]_vars

----------------------------------------------------------------------------
(* Specification SpecMacroSwitch: useMacroEvents while the asset prop      *)
(* changes.  Every run of the effect starts its own fetchAndBackfill, and  *)
(* every interval callback polls the asset of the render that created it.  *)
(*                                                                         *)
(* macro.asset               the `asset` prop of the current render        *)
(* macro.currentAssetRef     currentAssetRef.current                       *)
(* macro.backfillInProgress  backfillInProgressRef.current                 *)
(* macro.events              the `events` state                            *)
(* macro.shown               the asset of the run whose list was last set  *)
(*                           as the `events` state ("none" before any)     *)
(* macro.runs                the runs of fetchAndBackfill, one per effect  *)
(* macro.ticks               asset -> interval callbacks of that asset's   *)
(*                           render waiting for fetchCurrentPrice          *)
(* macro.switches            asset changes so far                          *)
(*                                                                         *)
(* The upstream quotes the two assets in disjoint ranges, so that a price  *)
(* tells which asset it was fetched for.                                   *)

MaxSwitches == 1    \* changes of the asset prop

PriceFor(asset, p) ==
    IF p = Null THEN Null ELSE IF asset = MacroAsset THEN p ELSE 2 * p
PricesOf(asset) == {PriceFor(asset, p) : p \in MacroPrices \cup {Null}}

SwitchClock == {EventTime + MACRO_WINDOWS["1h"]}

\* the upstream answers a poll with the one quote of the asset, or fails
SwitchPrices == {BasePrice, Null}

\* the upstream answers every window request it can, or none
SwitchResponses(timestamp, t) ==
    {[k \in TfKeySet |-> Null],
     [k \in TfKeySet |->
         IF BasePrice \in HistoricalPrices(timestamp + MACRO_WINDOWS[k], t)
         THEN BasePrice ELSE Null]}

\* getStoredMacroEventsForAsset(asset): the rows of the asset, by event id
StoredFor(table, asset) ==
    [key \in MacroKeys |-> table[<<key[1], asset>>]]

SwitchKeys == EventIds \X Assets
EmptySwitchTable == [key \in SwitchKeys |-> NoRecord]

NoRun == [asset |-> MacroAsset, pc |-> "fetch", queue |-> <<>>,
          baselinePrice |-> Null, t |-> 0]

\* the top of the loop over eventsToBackfill for run r: the asset guard,
\* then the next backfill, or the end of the run
RunLoop(m, i, queue) ==
    IF queue = <<>>
    THEN [m EXCEPT !.backfillInProgress = FALSE,
                   !.runs[i] = [NoRun EXCEPT !.asset = m.runs[i].asset, !.pc = "done"]]
    ELSE IF m.currentAssetRef # m.runs[i].asset
    THEN [m EXCEPT !.backfillInProgress = FALSE,
                   !.runs[i] = [NoRun EXCEPT !.asset = m.runs[i].asset, !.pc = "done"]]
    ELSE [m EXCEPT !.runs[i] = [NoRun EXCEPT !.asset = m.runs[i].asset,
                                             !.pc = "baseline",
                                             !.queue = queue]]

\* the effect on [asset]: set the refs and start fetchAndBackfill
StartRun(m, asset) ==
    [m EXCEPT !.asset = asset,
              !.currentAssetRef = asset,
              !.backfillInProgress = FALSE,
              !.runs = Append(@, [NoRun EXCEPT !.asset = asset])]

InitMacroSwitch ==
    /\ now = EventTime
    /\ store = EmptySwitchTable
    /\ macro = StartRun([asset |-> MacroAsset, currentAssetRef |-> MacroAsset,
                         backfillInProgress |-> FALSE, events |-> <<>>,
                         shown |-> "none",
                         runs |-> <<>>, ticks |-> [a \in Assets |-> 0],
                         switches |-> 0],
                        MacroAsset)
    /\ calc = Idle /\ saves = Idle /\ news = Idle

\* the asset prop changes: both effects run again
AssetChange ==
    /\ macro.switches < MaxSwitches
    /\ \E a \in Assets \ {macro.asset} :
          macro' = StartRun([macro EXCEPT !.switches = @ + 1], a)
    /\ UNCHANGED <<now, calc, store, saves, news>>

\* the events and the stored prices arrive at a run (or the fetch throws)
RunFetch ==
    /\ \E i \in 1..Len(macro.runs), fetchOk \in BOOLEAN :
          LET r == macro.runs[i]
              events == EventsWithTracking(StoredFor(store, r.asset), now)
              m1 == [macro EXCEPT !.events = events, !.shown = r.asset]
          IN  /\ r.pc = "fetch"
              /\ macro' =
                    IF ~fetchOk THEN [macro EXCEPT !.runs[i].pc = "done"]
                    ELSE IF macro.backfillInProgress
                    THEN [m1 EXCEPT !.runs[i].pc = "done"]
                    ELSE RunLoop([m1 EXCEPT !.backfillInProgress = TRUE], i,
                                 EventsToBackfill(events))
    /\ UNCHANGED <<now, calc, store, saves, news>>

\* backfillMacroEventPrices of a run: the baseline request returns
RunBaseline ==
    /\ \E i \in 1..Len(macro.runs) :
          LET r == macro.runs[i]
              id == Head(r.queue)
          IN  /\ r.pc = "baseline"
              /\ \E p \in HistoricalPrices(MacroEventList[id].timestamp, now) :
                    macro' = IF p = Null THEN RunLoop(macro, i, Tail(r.queue))
                             ELSE [macro EXCEPT
                                     !.runs[i].pc = "windows",
                                     !.runs[i].baselinePrice = PriceFor(r.asset, p),
                                     !.runs[i].t = now]
    /\ UNCHANGED <<now, calc, store, saves, news>>

\* backfillMacroEventPrices returns to a run: setEvents and the save
RunWindows ==
    /\ \E i \in 1..Len(macro.runs) :
          LET r == macro.runs[i]
              id == Head(r.queue)
              timestamp == MacroEventList[id].timestamp
          IN  /\ r.pc = "windows"
              /\ \E resp \in SwitchResponses(timestamp, r.t) :
                    LET priceWindows ==
                            [k \in TfKeySet |->
                                BackfillWindow(timestamp, r.t, r.baselinePrice, k,
                                               PriceFor(r.asset, resp[k]))]
                    IN  /\ macro' = [macro EXCEPT
                                       !.events =
                                          [e \in DOMAIN @ |->
                                             IF e = id
                                             THEN [@[e] EXCEPT
                                                     !.baselinePrice = r.baselinePrice,
                                                     !.priceWindows = priceWindows,
                                                     !.status = "complete"]
                                             ELSE @[e]],
                                       !.runs[i].pc = "save"]
                        /\ store' = saveMacroEventPrices(store, id, r.asset,
                                                         r.baselinePrice, priceWindows)
    /\ UNCHANGED <<now, calc, saves, news>>

\* saveMacroEventPrices has returned to a run: back to the top of the loop
RunSaved ==
    /\ \E i \in 1..Len(macro.runs) :
          /\ macro.runs[i].pc = "save"
          /\ macro' = RunLoop(macro, i, Tail(macro.runs[i].queue))
    /\ UNCHANGED <<now, calc, store, saves, news>>

\* the interval of the current render fires
SwitchTick ==
    /\ macro.ticks["ETH"] + macro.ticks["BTC"] < MaxTicks
    /\ macro' = [macro EXCEPT !.events = TickRelease(@, now),
                              !.ticks[macro.asset] = @ + 1]
    /\ UNCHANGED <<now, calc, store, saves, news>>

\* fetchCurrentPrice of asset a returns to a callback: the second setEvents,
\* and the save under currentAssetRef.current of the events it completes
SwitchTickPrice ==
    /\ \E a \in Assets, p \in SwitchPrices :
          LET events == TickPoll(macro.events, now, PriceFor(a, p))
          IN  /\ macro.ticks[a] > 0
              /\ macro' = [macro EXCEPT !.events = events, !.ticks[a] = @ - 1]
              /\ store' =
                    [key \in SwitchKeys |->
                        IF /\ key[1] \in CompletedByTick(macro.events, events)
                           /\ key[2] = macro.currentAssetRef
                        THEN saveMacroEventPrices(store, key[1], key[2],
                                                  macro.events[key[1]].baselinePrice,
                                                  events[key[1]].priceWindows)[key]
                        ELSE store[key]]
    /\ UNCHANGED <<now, calc, saves, news>>

SwitchClockAdvance ==
    /\ \E t \in SwitchClock : t > now /\ now' = t
    /\ UNCHANGED <<calc, store, saves, news, macro>>

NextMacroSwitch ==
    \/ AssetChange
    \/ RunFetch
    \/ RunBaseline
    \/ RunWindows
    \/ RunSaved
    \/ SwitchTick
    \/ SwitchTickPrice
    \/ SwitchClockAdvance

SpecMacroSwitch == InitMacroSwitch /\ [][NextMacroSwitch]_vars

\* the prices of a stored row
RowPrices(row) ==
    {row.baseline_price} \cup {row.windows[k].price : k \in TfKeySet}

\* C20: after the asset has changed, no price obtained for the earlier asset
\* is written into the events state shown for the new one (once the list of
\* the selected asset is shown, a backfill or a tick poll of another asset
\* leaves the events as they are when it returns), and no record is saved
\* under one asset with prices fetched for the other.
C20_NoCrossAsset ==
    [][/\ \A i \in 1..Len(macro.runs) :
             (/\ macro.runs[i].pc = "windows"
              /\ macro'.runs[i].pc = "save"
              /\ macro.runs[i].asset # macro.asset
              /\ macro.shown = macro.asset)
                 => macro'.events = macro.events
       /\ \A a \in Assets :
             (/\ macro'.ticks[a] < macro.ticks[a]
              /\ a # macro.asset
              /\ macro.shown = macro.asset)
                 => macro'.events = macro.events
       /\ \A key \in SwitchKeys :
             (store'[key] # store[key])
                 => RowPrices(store'[key]) \subseteq PricesOf(key[2])]_vars

----------------------------------------------------------------------------
(* Specification SpecTwice: fetchMultiTimeframePricesClient called twice   *)
(* on one timestamp and asset, with the clock and the upstream answers     *)
(* fixed.  The function keeps nothing between calls: it reads Date.now()   *)
(* once, and the answers of fetchBinancePrice.                             *)

CallIds == {1, 2}
NoResult == <<>>

InitTwice ==
    /\ now \in ClockPoints
    /\ \E resp \in Responses(TfKeySet, TIMEFRAME_CONFIGS, EventTime, now) :
          calc = [timestamp |-> EventTime, resp |-> resp,
                  results |-> [c \in CallIds |-> NoResult]]
    /\ store = Idle /\ saves = Idle /\ news = Idle /\ macro = Idle

\* a call that would read a clock of its own (used to test C25)
TwiceCallOf_OwnClock(c) ==
    /\ calc.results[c] = NoResult
    /\ calc' = [calc EXCEPT !.results[c] =
                   fetchMultiTimeframePricesClient(
                       calc.timestamp, now - (c - 1) * TIMEFRAME_CONFIGS["1h"],
                       calc.resp)]
    /\ UNCHANGED <<now, store, saves, news, macro>>

\* call c runs and returns
TwiceCallOf(c) ==
    /\ calc.results[c] = NoResult
    /\ calc' = [calc EXCEPT !.results[c] =
                   fetchMultiTimeframePricesClient(calc.timestamp, now, calc.resp)]
    /\ UNCHANGED <<now, store, saves, news, macro>>

TwiceCall == \E c \in CallIds : TwiceCallOf(c)

NextTwice == TwiceCall

SpecTwice == InitTwice /\ [][NextTwice]_vars

----------------------------------------------------------------------------
(* calculateMacroImpact: the direction, stated over the windows it is given *)

MacroCounted(k) ==
    calc.result.windows[k].locked /\ calc.result.windows[k].change # NullChange
MacroUp(k) == MacroCounted(k) /\ calc.result.windows[k].change.n > 0
MacroDown(k) == MacroCounted(k) /\ calc.result.windows[k].change.n < 0
Count(P(_)) == Cardinality({k \in TfKeySet : P(k)})

\* C26 as stated: the direction of calculateMacroImpact is a weighted vote
\* (1m=4, 10m=3, 30m=2, 1h=1) over locked windows with non-null change:
\* positive iff the weight of the rising windows exceeds that of the falling
\* ones, negative iff the reverse, neutral otherwise.
C26_MacroDirection_Original ==
    (calc.fn = "macro") =>
        /\ calc.result.impact.direction = "positive"
              <=> Vote(MacroUp) > Vote(MacroDown)
        /\ calc.result.impact.direction = "negative"
              <=> Vote(MacroDown) > Vote(MacroUp)
        /\ calc.result.impact.direction = "neutral"
              <=> Vote(MacroUp) = Vote(MacroDown)

\* C26, amended: the direction of calculateMacroImpact is a majority vote by
\* number of windows, over locked windows with non-null change: positive iff
\* more windows rose than fell, negative iff more fell than rose, neutral
\* otherwise; the weights 4, 3, 2, 1 enter the score only.
C26_MacroDirection ==
    (calc.fn = "macro") =>
        /\ calc.result.impact.direction = "positive"
              <=> Count(MacroUp) > Count(MacroDown)
        /\ calc.result.impact.direction = "negative"
              <=> Count(MacroDown) > Count(MacroUp)
        /\ calc.result.impact.direction = "neutral"
              <=> Count(MacroUp) = Count(MacroDown)

\* 1m up (weight 4) against 30m and 1h down (weight 3): negative by count
C26_Witness ==
    /\ calc.fn = "macro"
    /\ MacroUp("1m") /\ ~MacroCounted("10m") /\ MacroDown("30m") /\ MacroDown("1h")
    /\ calc.result.impact.direction = "negative"

----------------------------------------------------------------------------
\* C27: backfillMacroEventPrices with an available baseline returns every
\* window whose target time timestamp + duration <= now as locked, with change
\* null when that window's price is unavailable, and every window whose
\* target time is still in the future as unlocked with price and change null
\* (now is the clock value the backfill read; the returned windows are those
\* written into the event when it returns).
C27_BackfillWindows ==
    [][(macro.backfill.pc = "windows" /\ macro'.backfill.pc = "save") =>
          LET id == Head(macro.backfill.queue)
              timestamp == MacroEventList[id].timestamp
              returned == macro'.events[id].priceWindows
          IN  \A k \in TfKeySet :
                 IF timestamp + MACRO_WINDOWS[k] <= macro.backfill.t
                 THEN /\ returned[k].locked
                      /\ returned[k].price = Null => returned[k].change = NullChange
                 ELSE returned[k] = UnlockedWindow]_vars

----------------------------------------------------------------------------
\* C29: after any sequence of saveTweetImpact calls on one (tweet id, asset)
\* key, the stored impact_score and impact_direction are the score and the
\* direction computed from the timeframe values stored in the same record.
C29_StoredAggregate ==
    store[SaveKey] # NoRecord =>
        LET acc == WeightedTotals(store[SaveKey].timeframes)
        IN  /\ store[SaveKey].impact_score = ImpactScore(acc)
            /\ store[SaveKey].impact_direction = ImpactDirection(acc.pos, acc.neg)

----------------------------------------------------------------------------
\* C30: if the record of a key was first stored from a baseline-unavailable
\* result (price_at_t null, every timeframe non-pending with null price and
\* change) and saveTweetImpact is then called, successfully, with a result
\* that has a non-null baseline and non-null values in its resolved
\* timeframes, the stored record afterwards holds that result's baseline and
\* timeframe values.
C30_BaselineRecovery ==
    [][\A resp \in StoreResponses(EventTime, now) :
          LET tweet == fetchMultiTimeframePricesClient(EventTime, now, resp)
          IN  (/\ store[SaveKey] = InsertedRow(BaselineUnavailable)
               /\ tweet.priceAtT # Null
               /\ \A k \in TfKeySet :
                     ~tweet.timeframes[k].pending => tweet.timeframes[k].price # Null
               /\ now' = now
               /\ saves'.ok
               /\ store' = saveTweetImpact(store, SaveKey, tweet, TRUE, TRUE).table)
                 => /\ store'[SaveKey].price_at_t = tweet.priceAtT
                    /\ store'[SaveKey].timeframes = tweet.timeframes]_vars

----------------------------------------------------------------------------
(* Specification SpecDegraded: the store functions of lib/supabase with a  *)
(* store that may be unconfigured (getSupabase() returns null) and whose   *)
(* requests may fail, and what the hooks put into `tweets` and `events`    *)
(* from them.                                                              *)
(*                                                                         *)
(* store.configured   isSupabaseConfigured                                 *)
(* store.tweets       the `tweets` table                                   *)
(* store.events       the `macro_events` table                             *)
(* news               the `tweets` state of useNewsFeed (<<>> before load) *)
(* macro              the `events` state of useMacroEvents                 *)
(* saves              the last store call: function, outcome, and whether  *)
(*                    the store was unavailable to it                      *)

DegradedKey == <<"t1", MacroAsset>>
DegradedEvent == "e1"

\* getStoredTweetsForAsset: the rows read, [] without a client or on error
getStoredTweetsForAsset_IgnoresError(st, readOk) ==
    IF ~st.configured THEN EmptyTable ELSE st.tweets

getStoredTweetsForAsset(st, readOk) ==
    IF ~st.configured \/ ~readOk THEN EmptyTable ELSE st.tweets

\* getStoredMacroEventsForAsset: likewise
getStoredMacroEventsForAsset(st, readOk) ==
    IF ~st.configured \/ ~readOk THEN EmptyMacroTable ELSE st.events

\* saveTweetImpact behind getSupabase()
saveTweetImpactOn(st, key, tweet, readOk, writeOk) ==
    IF ~st.configured THEN [table |-> st.tweets, ok |-> FALSE]
    ELSE saveTweetImpact(st.tweets, key, tweet, readOk, writeOk)

\* whether saveTweetImpact gets as far as sending an insert or an update
WritesTweet(st, key, tweet, readOk) ==
    LET existing == IF readOk THEN st.tweets[key] ELSE NoRecord
    IN  st.configured /\ (existing = NoRecord \/ HasUpdates(UpdatesOf(existing, tweet)))

\* saveMacroEventPrices: delete, then insert; the outcome of the delete is
\* not looked at, a failed insert returns false.  An insert of a key that is
\* still present is rejected by the table.
saveMacroEventPricesOn(st, id, asset, baselinePrice, priceWindows, deleteOk, insertOk) ==
    IF ~st.configured THEN [table |-> st.events, ok |-> FALSE]
    ELSE LET key == <<id, asset>>
             deleted == IF deleteOk THEN [st.events EXCEPT ![key] = NoRecord]
                        ELSE st.events
         IN  IF insertOk /\ deleted[key] = NoRecord
             THEN [table |-> saveMacroEventPrices(deleted, id, asset, baselinePrice,
                                                  priceWindows),
                   ok |-> TRUE]
             ELSE [table |-> deleted, ok |-> FALSE]

\* the windows handed to saveMacroEventPrices
LockedAt(p) == [price |-> p, change |-> MacroChange(p, BasePrice), locked |-> TRUE]
DegradedWindows ==
    {emptyWindows,
     [emptyWindows EXCEPT !["1m"] = LockedAt(BasePrice + 1)],
     [k \in TfKeySet |-> LockedAt(BasePrice + 1)],
     [k \in TfKeySet |-> LockedAt(BasePrice - 1)]}

\* the calculator results handed to saveTweetImpact
DegradedResults ==
    {fetchMultiTimeframePricesClient(EventTime, EventTime + TIMEFRAME_CONFIGS["10m"], resp) :
        resp \in StoreResponses(EventTime, EventTime + TIMEFRAME_CONFIGS["10m"])}

NoStoreCall == [fn |-> "none", unavailable |-> FALSE, ok |-> FALSE]

InitDegraded ==
    /\ now = EventTime + MACRO_WINDOWS["1h"]
    /\ \E configured \in BOOLEAN,
          tweets \in {EmptyTable} \cup
                     {[EmptyTable EXCEPT ![DegradedKey] = InsertedRow(r)] :
                         r \in DegradedResults},
          events \in {EmptyMacroTable,
                      [EmptyMacroTable EXCEPT ![<<DegradedEvent, MacroAsset>>] =
                          StoredEarlier]} :
          store = [configured |-> configured, tweets |-> tweets, events |-> events]
    /\ news = <<>>
    /\ macro = <<>>
    /\ saves = NoStoreCall
    /\ calc = Idle

\* fetchPrices: the cache is read and the tweets are initialised from it
DegradedLoadTweets ==
    /\ news = <<>>
    /\ \E readOk \in BOOLEAN :
          /\ news' = InitializedTweets(
                         CachedMapOf(getStoredTweetsForAsset(store, readOk), MacroAsset))
          /\ saves' = [fn |-> "getStoredTweetsForAsset",
                       unavailable |-> ~store.configured \/ ~readOk, ok |-> FALSE]
    /\ UNCHANGED <<now, calc, store, macro>>

\* fetchAndBackfill: the stored prices are read and the events are built
DegradedLoadEvents ==
    /\ macro = <<>>
    /\ \E readOk \in BOOLEAN :
          /\ macro' = EventsWithTracking(getStoredMacroEventsForAsset(store, readOk), now)
          /\ saves' = [fn |-> "getStoredMacroEventsForAsset",
                       unavailable |-> ~store.configured \/ ~readOk, ok |-> FALSE]
    /\ UNCHANGED <<now, calc, store, news>>

\* a price result: setTweets, then saveTweetImpact
DegradedSaveTweet ==
    /\ news # <<>>
    /\ \E tweet \in DegradedResults, readOk \in BOOLEAN, writeOk \in BOOLEAN :
          LET r == saveTweetImpactOn(store, DegradedKey, tweet, readOk, writeOk)
          IN  /\ news' = WriteTweet(news, DegradedKey[1], tweet)
              /\ store' = [store EXCEPT !.tweets = r.table]
              /\ saves' = [fn |-> "saveTweetImpact",
                           unavailable |->
                              \/ ~store.configured
                              \/ WritesTweet(store, DegradedKey, tweet, readOk) /\ ~writeOk,
                           ok |-> r.ok]
    /\ UNCHANGED <<now, calc, macro>>

\* a backfill result: setEvents, then saveMacroEventPrices
DegradedSaveEvent ==
    /\ macro # <<>>
    /\ \E priceWindows \in DegradedWindows, deleteOk \in BOOLEAN, insertOk \in BOOLEAN :
          LET r == saveMacroEventPricesOn(store, DegradedEvent, MacroAsset, BasePrice,
                                          priceWindows, deleteOk, insertOk)
          IN  /\ macro' = [macro EXCEPT ![DegradedEvent] =
                             [@ EXCEPT !.baselinePrice = BasePrice,
                                       !.priceWindows = priceWindows,
                                       !.status = "complete"]]
              /\ store' = [store EXCEPT !.events = r.table]
              /\ saves' = [fn |-> "saveMacroEventPrices",
                           unavailable |-> ~store.configured \/ ~insertOk,
                           ok |-> r.ok]
    /\ UNCHANGED <<now, calc, news>>

NextDegraded ==
    \/ DegradedLoadTweets
    \/ DegradedLoadEvents
    \/ DegradedSaveTweet
    \/ DegradedSaveEvent

SpecDegraded == InitDegraded /\ [][NextDegraded]_vars

C24_LockedWindowKept ==
    [][LET key == <<DegradedEvent, MacroAsset>>
           row == store.events[key]
       IN  row # NoRecord =>
              /\ store'.events[key] # NoRecord
              /\ \A k \in TfKeySet :
                    row.windows[k].locked
                        => store'.events[key].windows[k] = row.windows[k]]_vars

----------------------------------------------------------------------------
(* Specification SpecPipeline: the historical-price requests of the page,  *)
(* one by one on a millisecond clock.  The callers are the runs of         *)
(* useNewsFeed.fetchPrices (one per selection of an asset), a refresh by   *)
(* updateTweetPrice, and the backfill loop of useMacroEvents.              *)
(*                                                                         *)
(* news.passes     the runs of fetchPrices                                 *)
(* news.refresh    the updateTweetPrice call                               *)
(* macro           the backfill loop                                       *)
(* A caller is at pc "request" (a fetch is in flight),                     *)
(* "delay" (between two requests of one item), "throttle" (between two     *)
(* tweets), "idle" or "done".  `left` is the time in ms until its request  *)
(* returns or its timer fires, `last` the request it started last and      *)
(* `since` the time since that start, counted up to MinDelay.              *)
(* Time is kept in these timers; `now` stays at 0.                         *)

MinDelay == 100               \* delay(100) before each timeframe request
PRICE_FETCH_DELAY_MS == 200
DELAY_MS == 200
MinLatency == 10              \* the shortest time a request takes
MaxSelections == 2            \* selections of another asset

Latencies == {MinLatency}

\* requests after the baseline that each tweet / event has, by position:
\* the offsets whose target time has passed
OffsetsDue == <<1, 0>>
PipelineItems == Len(OffsetsDue)

NoStart == [item |-> 0, step |-> 0]
IdleCaller == [pc |-> "idle", asset |-> MacroAsset, item |-> 0, step |-> 0,
               left |-> 0, last |-> NoStart, since |-> 0]

\* the caller starts the request `step` of `item`; it returns after lat
Request(c, item, step, lat) ==
    [c EXCEPT !.pc = "request", !.item = item, !.step = step, !.left = lat,
              !.last = [item |-> item, step |-> step], !.since = 0]

Wait(c, pc, ms) == [c EXCEPT !.pc = pc, !.left = ms]

\* a caller that has returned keeps nothing
Done(c) == [IdleCaller EXCEPT !.pc = "done", !.asset = c.asset]

\* fetchMultiTimeframePricesClient after one of its requests has returned:
\* "returned" when the call is over, else the delay before the next request
CallAfterRequest(c, baselineOk) ==
    IF (c.step = 0 /\ ~baselineOk) \/ c.step >= OffsetsDue[c.item]
    THEN [c EXCEPT !.pc = "returned"]
    ELSE Wait(c, "delay", MinDelay)

\* fetchPrices: the top of the loop for tweet `item`
PassLoopTop(c, item, ref, lat) ==
    IF item > PipelineItems \/ ref # c.asset THEN Done(c)
    ELSE Request(c, item, 0, lat)

\* fetchPrices after the calculator has returned: guard, writes, throttle
PassAfterCall(c, ref) ==
    IF ref # c.asset THEN Done(c)
    ELSE IF c.item < PipelineItems THEN Wait(c, "throttle", PRICE_FETCH_DELAY_MS)
    ELSE Done(c)

\* fetchAndBackfill: the top of the loop for event `item`
BackfillLoopTop(c, item, ref, lat) ==
    IF item > PipelineItems \/ ref # c.asset THEN Done(c)
    ELSE Request(c, item, 0, lat)

InitPipeline ==
    /\ now = 0
    /\ news = [currentAssetRef |-> MacroAsset, selections |-> 0,
               passes |-> <<>>, refresh |-> IdleCaller]
    /\ macro = IdleCaller
    /\ calc = Idle /\ store = Idle /\ saves = Idle

\* the tweets have arrived, or another asset is selected: fetchPrices starts
\* (the cache of the asset is read or already held) and sends its first request
PipelineStartPass ==
    /\ \E asset \in Assets, lat \in Latencies :
          /\ IF news.passes = <<>> THEN asset = MacroAsset
             ELSE asset # news.currentAssetRef /\ news.selections < MaxSelections
          /\ news' = [news EXCEPT
                        !.currentAssetRef = asset,
                        !.selections = IF news.passes = <<>> THEN @ ELSE @ + 1,
                        !.passes = Append(@, PassLoopTop(
                                       [IdleCaller EXCEPT !.asset = asset],
                                       1, asset, lat))]
    /\ UNCHANGED <<now, calc, store, saves, macro>>

\* a request of a pass returns
PipelinePassRequest ==
    /\ \E i \in 1..Len(news.passes), baselineOk \in BOOLEAN :
          LET c == news.passes[i]
              after == CallAfterRequest(c, baselineOk)
          IN  /\ c.pc = "request" /\ c.left = 0
              /\ news' = [news EXCEPT !.passes[i] =
                            IF after.pc = "returned"
                            THEN PassAfterCall(c, news.currentAssetRef)
                            ELSE after]
    /\ UNCHANGED <<now, calc, store, saves, macro>>

\* a delay of a pass ends: the next request of the tweet, or the next tweet
PipelinePassDelay ==
    /\ \E i \in 1..Len(news.passes), lat \in Latencies :
          LET c == news.passes[i]
          IN  /\ c.pc \in {"delay", "throttle"} /\ c.left = 0
              /\ news' = [news EXCEPT !.passes[i] =
                            IF c.pc = "delay"
                            THEN Request(c, c.item, c.step + 1, lat)
                            ELSE PassLoopTop(c, c.item + 1, news.currentAssetRef, lat)]
    /\ UNCHANGED <<now, calc, store, saves, macro>>

\* the user refreshes the first tweet: updateTweetPrice sends its baseline request
PipelineRefresh ==
    /\ news.passes # <<>>
    /\ news.refresh.pc = "idle"
    /\ \E lat \in Latencies :
          news' = [news EXCEPT !.refresh = Request(@, 1, 0, lat)]
    /\ UNCHANGED <<now, calc, store, saves, macro>>

\* a request of the refresh returns
PipelineRefreshRequest ==
    /\ news.refresh.pc = "request" /\ news.refresh.left = 0
    /\ \E baselineOk \in BOOLEAN :
          LET after == CallAfterRequest(news.refresh, baselineOk)
          IN  news' = [news EXCEPT !.refresh =
                         IF after.pc = "returned" THEN Done(@) ELSE after]
    /\ UNCHANGED <<now, calc, store, saves, macro>>

\* the delay of the refresh ends
PipelineRefreshDelay ==
    /\ news.refresh.pc = "delay" /\ news.refresh.left = 0
    /\ \E lat \in Latencies :
          news' = [news EXCEPT !.refresh = Request(@, @.item, @.step + 1, lat)]
    /\ UNCHANGED <<now, calc, store, saves, macro>>

\* the macro events have arrived: the backfill loop sends its first request
PipelineStartBackfill ==
    /\ macro.pc = "idle"
    /\ \E lat \in Latencies :
          macro' = BackfillLoopTop(macro, 1, MacroAsset, lat)
    /\ UNCHANGED <<now, calc, store, saves, news>>

\* a request of backfillMacroEventPrices returns.  Without a baseline the
\* function returns and the loop goes on to the next event; else DELAY_MS
PipelineBackfillRequest ==
    /\ macro.pc = "request" /\ macro.left = 0
    /\ \E baselineOk \in BOOLEAN, lat \in Latencies :
          macro' = IF macro.step = 0 /\ ~baselineOk
                   THEN BackfillLoopTop(macro, macro.item + 1, MacroAsset, lat)
                   ELSE Wait(macro, "delay", DELAY_MS)
    /\ UNCHANGED <<now, calc, store, saves, news>>

\* a delay of backfillMacroEventPrices ends: the next window that is due, or
\* the return, setEvents, the save and the next event
PipelineBackfillDelay ==
    /\ macro.pc = "delay" /\ macro.left = 0
    /\ \E lat \in Latencies :
          macro' = IF macro.step < OffsetsDue[macro.item]
                   THEN Request(macro, macro.item, macro.step + 1, lat)
                   ELSE BackfillLoopTop(macro, macro.item + 1, MacroAsset, lat)
    /\ UNCHANGED <<now, calc, store, saves, news>>

\* the callers that wait for a request or a timer
Awaiting(c) == c.pc \in {"request", "delay", "throttle"}
Timers ==
    {news.passes[i].left : i \in {j \in 1..Len(news.passes) : Awaiting(news.passes[j])}}
    \cup (IF Awaiting(news.refresh) THEN {news.refresh.left} ELSE {})
    \cup (IF Awaiting(macro) THEN {macro.left} ELSE {})

Elapse(c, ms) ==
    IF Awaiting(c)
    THEN [c EXCEPT !.left = @ - ms,
                   !.since = IF @ + ms > MinDelay THEN MinDelay ELSE @ + ms]
    ELSE c

\* time passes up to the next return or timer
PipelineClock ==
    /\ Timers # {}
    /\ \E ms \in Timers :
          /\ ms > 0
          /\ \A u \in Timers : ms <= u
          /\ news' = [news EXCEPT
                        !.passes = [i \in 1..Len(@) |-> Elapse(@[i], ms)],
                        !.refresh = Elapse(@, ms)]
          /\ macro' = Elapse(macro, ms)
    /\ UNCHANGED <<now, calc, store, saves>>

NextPipeline ==
    \/ PipelineStartPass
    \/ PipelinePassRequest
    \/ PipelinePassDelay
    \/ PipelineRefresh
    \/ PipelineRefreshRequest
    \/ PipelineRefreshDelay
    \/ PipelineStartBackfill
    \/ PipelineBackfillRequest
    \/ PipelineBackfillDelay
    \/ PipelineClock

SpecPipeline == InitPipeline /\ [][NextPipeline]_vars

\* the request `next` follows `last` in submission order
InSubmissionOrder(last, next) ==
    \/ next.item > last.item
    \/ next.item = last.item /\ next.step = last.step + 1

\* a caller starts a request in this step, after an earlier one
StartsNext(c, d) ==
    /\ d.pc = "request"
    /\ c.pc # "request" \/ d.last # c.last
    /\ c.last # NoStart

Sequential(c, d) ==
    StartsNext(c, d) =>
        /\ c.pc = "request" => c.left = 0
        /\ InSubmissionOrder(c.last, d.last)
        /\ c.since >= MinDelay

\* C21: within one pipeline (a fetchPrices pass over the tweets, the macro
\* backfill over the released events) the requests are issued one after
\* another in submission order (baseline, offsets by increasing duration,
\* next item), and at least the minimum delay (100 ms) lies between the
\* starts of two consecutive requests, on every path.
C21_SequentialSpaced ==
    [][/\ \A i \in 1..Len(news.passes) : Sequential(news.passes[i], news'.passes[i])
       /\ Sequential(macro, macro')]_vars

\* the caller has a request in flight
InFlight(c) == c.pc = "request" /\ c.left > 0

\* C22: at most one historical-price request is in flight at any time across
\* all callers of the page (fetchPrices passes, updateTweetPrice refreshes,
\* the macro backfill), also after the asset was switched away and back while
\* an earlier pass is running.
C22_OneInFlight ==
    Cardinality({i \in 1..Len(news.passes) : InFlight(news.passes[i])})
    + (IF InFlight(news.refresh) THEN 1 ELSE 0)
    + (IF InFlight(macro) THEN 1 ELSE 0) <= 1

----------------------------------------------------------------------------
(* Specification SpecMacroLive: SpecMacro with the scheduling the browser  *)
(* gives.  The interval keeps firing, every pending request and timer      *)
(* returns, the clock advances, and polls succeed again and again.         *)

TickPriceOk == \E currentPrice \in MacroPrices : TickPriceOf(currentPrice)

MacroFairness ==
    /\ WF_vars(FetchAndBackfill)
    /\ WF_vars(BackfillBaseline)
    /\ WF_vars(BackfillWindows)
    /\ WF_vars(BackfillSaved)
    /\ WF_vars(Tick)
    /\ WF_vars(TickPrice)
    /\ SF_vars(TickPriceOk)
    /\ WF_vars(MacroClockAdvance)

SpecMacroLive == InitMacro /\ [][NextMacro]_vars /\ MacroFairness

Pending(id) ==
    /\ id \in DOMAIN macro.events
    /\ macro.events[id].status \in {"upcoming", "released"}

CompleteAllLocked(id) ==
    /\ id \in DOMAIN macro.events
    /\ macro.events[id].status = "complete"
    /\ \A k \in TfKeySet : macro.events[id].priceWindows[k].locked

\* C28: with the asset unchanged, ticks firing fairly, the clock advancing
\* and polls succeeding infinitely often, every event that is upcoming or
\* released eventually reaches status complete with all four windows locked.
C28_EventuallyComplete ==
    \A id \in EventIds : Pending(id) ~> CompleteAllLocked(id)

====
